---- MODULE Spec2Model ----
(***************************************************************************)
(* State-machine model of the recipe site's data layer                     *)
(* (src/database/schema.sql: tables, seed data, triggers), of the Worker   *)
(* API handlers that read and write it (src/unnamed/part_000), and of the  *)
(* browser code that calls the API and keeps the visitor's lists           *)
(* (src/js/main.js: debounce, RecipeAPI, RecipeDataManager).               *)
(*                                                                         *)
(* Engine semantics the schema relies on (SQLite as run by Cloudflare D1): *)
(*   - every SQL statement, with all triggers and foreign-key actions it   *)
(*     fires, is one atomic step; a constraint failure anywhere inside it  *)
(*     rolls the whole statement back;                                     *)
(*   - foreign keys are enforced (D1 default);                             *)
(*   - recursive_triggers is off (SQLite default): a trigger is not fired  *)
(*     again while it is already running;                                  *)
(*   - x || NULL is NULL; LOWER folds ASCII letters only;                  *)
(*   - a REAL bound to a column of INTEGER affinity that has no exact      *)
(*     integer value is stored as the REAL.                                *)
(***************************************************************************)
EXTENDS Integers, Sequences, FiniteSets, Bags, TLC

VARIABLES
    categories,           \* table categories: id -> row
    recipes,              \* table recipes: id -> row
    recipe_categories,    \* table recipe_categories: set of <<recipe_id, category_id>>
    reviews,              \* table reviews: set of rows (with their id)
    recipe_search_index,  \* table recipe_search_index: bag of [recipe_id, search_text]
    seq,                  \* sqlite_sequence: last AUTOINCREMENT id per table
    now,                  \* CURRENT_TIMESTAMP
    last,                 \* the last statement executed and its outcome (history)
    req,                  \* in-flight addReview requests: process -> request state
    rd,                   \* in-flight read requests: process -> reader state
    chain,                \* the trigger programs one statement has set running
    clock,                \* Date.now() in the browser, in milliseconds
    cache,                \* RecipeAPI.cache: cacheKey -> { data, timestamp }
    calls,                \* calls of RecipeAPI.request in progress: call -> state
    server,               \* what the server behind fetch holds: reviews posted
    resolved,             \* reviews whose submitReview has resolved (history)
    favorites,            \* RecipeDataManager.favorites: array of recipes
    recentlyViewed,       \* RecipeDataManager.recentlyViewed: array of entries
    localStorage,         \* localStorage: what the data manager has saved
    done,                 \* the last operation of the data manager (history)
    timeout,              \* the timer of the debounced function, when one is set
    burst                 \* the wrapper's calls and func's invocations (history)

dbvars == <<categories, recipes, recipe_categories, reviews, recipe_search_index, seq>>
api == <<cache, calls, server, resolved>>
manager == <<favorites, recentlyViewed, localStorage, done>>
debouncer == <<timeout, burst>>
\* the state of the browser
client == <<clock, api, manager, debouncer>>
\* the state outside the database and the Worker's requests
ext == <<chain, client>>
\* the state of the Worker and its database
worker == <<dbvars, now, last, req, rd, chain>>

vars == <<categories, recipes, recipe_categories, reviews, recipe_search_index, seq,
          now, last, req, rd, ext>>

----------------------------------------------------------------------------
(* Bounds of the model *)

\* highest recipe id AUTOINCREMENT may hand out (2 recipes are seeded)
MaxRecipeId == 3
\* highest review id AUTOINCREMENT may hand out (4 reviews are seeded)
MaxReviewId == 6
\* highest value of the clock
MaxTime == 2
\* how many index rows a direct INSERT may pile up for one recipe
MaxIndexRows == 2

----------------------------------------------------------------------------
(* Numbers.  A REAL or INTEGER value is an exact fraction <<n, d>>, d > 0,   *)
(* in lowest terms; SQL NULL is <<0, 0>>.                                    *)

NULL == <<0, 0>>

RECURSIVE GCD(_, _)
GCD(a, b) == IF b = 0 THEN a ELSE GCD(b, a % b)

Frac(n, d) == LET g == GCD(n, d) IN <<n \div g, d \div g>>

Whole(n) == <<n, 1>>

IsNull(x) == x[2] = 0

IsInteger(x) == x[2] = 1

RatAdd(x, y) == Frac(x[1] * y[2] + y[1] * x[2], x[2] * y[2])

\* x <= y for non-null fractions
RatLeq(x, y) == x[1] * y[2] <= y[1] * x[2]

RECURSIVE RatSum(_)
RatSum(S) ==
    IF S = {} THEN Whole(0)
    ELSE LET x == CHOOSE y \in S : TRUE
         IN RatAdd(x.rating, RatSum(S \ {x}))

----------------------------------------------------------------------------
(* Text.  A TEXT value is a sequence of one-character strings; SQL NULL in   *)
(* a TEXT column is NOTEXT.  "Eacute" and "eacute" are the single letters    *)
(* E and e with an acute accent, which lie outside ASCII.                    *)

NOTEXT == <<"<null>">>

\* LOWER() on one character: SQLite folds the ASCII letters only
LowerChar(c) ==
    CASE c = "A" -> "a"
      [] c = "B" -> "b"
      [] c = "C" -> "c"
      [] OTHER -> c

\* SQL LOWER(t)
LOWER(t) == IF t = NOTEXT THEN NOTEXT ELSE [i \in 1..Len(t) |-> LowerChar(t[i])]

\* SQL a || b
Concat(a, b) == IF a = NOTEXT \/ b = NOTEXT THEN NOTEXT ELSE a \o b

\* LOWER(title || ' ' || description || ' ' || tags || ' ' || ingredients || ' ' || instructions)
SearchText(row) ==
    LOWER(Concat(row.title, Concat(<<" ">>, Concat(row.description, Concat(<<" ">>,
          Concat(row.tags, Concat(<<" ">>, Concat(row.ingredients, Concat(<<" ">>,
          row.instructions)))))))))

\* JavaScript's String.prototype.toLowerCase on one character: it folds
\* every letter that has a lower case
ToLowerCaseChar(c) ==
    CASE c = "A" -> "a"
      [] c = "B" -> "b"
      [] c = "C" -> "c"
      [] c = "Eacute" -> "eacute"
      [] OTHER -> c

ToLowerCase(q) == [i \in 1..Len(q) |-> ToLowerCaseChar(q[i])]

\* JavaScript's String.prototype.trim leaves nothing
TrimIsEmpty(q) == \A i \in 1..Len(q) : q[i] = " "

\* SQL t LIKE p, no ESCAPE: % matches any run of characters, _ any one
\* character, any other character itself, ASCII letters without regard to case
RECURSIVE LIKE(_, _)
LIKE(t, p) ==
    IF p = <<>> THEN t = <<>>
    ELSE IF Head(p) = "%"
    THEN LIKE(t, Tail(p)) \/ (t # <<>> /\ LIKE(Tail(t), p))
    ELSE /\ t # <<>>
         /\ Head(p) = "_" \/ LowerChar(Head(p)) = LowerChar(Head(t))
         /\ LIKE(Tail(t), Tail(p))

\* s occurs in t as a contiguous substring
Contains(t, s) ==
    \E i \in 0..(Len(t) - Len(s)) : SubSeq(t, i + 1, i + Len(s)) = s

----------------------------------------------------------------------------
(* The database as a value: the statements and triggers below are functions  *)
(* from database to database, so that a statement and everything it fires    *)
(* compose into one step.  err # "ok" marks a statement that must roll back. *)

DB == [categories |-> categories, recipes |-> recipes,
       recipe_categories |-> recipe_categories, reviews |-> reviews,
       recipe_search_index |-> recipe_search_index, seq |-> seq, err |-> "ok"]

Fail(d, e) == [d EXCEPT !.err = IF @ = "ok" THEN e ELSE @]

\* the two orders in which SQLite may run the two AFTER UPDATE triggers on recipes
TriggerOrders == {"index_first", "timestamp_first"}

ReviewsOf(d, r) == {x \in d.reviews : x.recipe_id = r}

\* SQL AVG(CAST(rating AS REAL)) over a set of review rows
AVG(S) ==
    IF S = {} THEN NULL
    ELSE LET s == RatSum(S) IN Frac(s[1], s[2] * Cardinality(S))

COALESCE(x, y) == IF IsNull(x) THEN y ELSE x

\* the index rows of recipe r, as a bag
IndexRowsOf(idx, r) ==
    [x \in {y \in DOMAIN idx : y.recipe_id = r} |-> idx[x]]

IndexCount(idx, r) == BagCardinality(IndexRowsOf(idx, r))

\* DELETE FROM recipe_search_index WHERE recipe_id = r
IndexWithout(idx, r) ==
    [x \in {y \in DOMAIN idx : y.recipe_id # r} |-> idx[x]]

----------------------------------------------------------------------------
(* Triggers (schema.sql 248-306) *)

\* update_category_timestamp absent: the assigned updated_at stays
update_category_timestamp_absent(d, id, t) == d

\* update_category_timestamp: it updates categories itself and, with
\* recursive triggers off, is not fired again by that update
update_category_timestamp(d, id, t) ==
    IF id \in DOMAIN d.categories
    THEN [d EXCEPT !.categories[id].updated_at = t]
    ELSE d

\* UPDATE categories SET recipe_count = n WHERE id = c, with its AFTER UPDATE trigger
UpdateCategoryCount(d, c, n, t) ==
    IF c \in DOMAIN d.categories
    THEN update_category_timestamp([d EXCEPT !.categories[c].recipe_count = n], c, t)
    ELSE d

AssocCount(d, c) == Cardinality({rc \in d.recipe_categories : rc[2] = c})

\* update_category_recipe_count_insert as an increment instead of a recount
update_category_recipe_count_insert_increment(d, new, t) ==
    IF new[2] \in DOMAIN d.categories
    THEN UpdateCategoryCount(d, new[2], d.categories[new[2]].recipe_count + 1, t)
    ELSE d

update_category_recipe_count_insert(d, new, t) ==
    UpdateCategoryCount(d, new[2], AssocCount(d, new[2]), t)

update_category_recipe_count_delete_none(d, old, t) == d

update_category_recipe_count_delete(d, old, t) ==
    UpdateCategoryCount(d, old[2], AssocCount(d, old[2]), t)

\* update_search_index: delete the recipe's index rows, insert one new row
update_search_index_keeps_old(d, new) ==
    LET text == SearchText(new)
    IN IF text = NOTEXT
       THEN Fail(d, "NOT NULL")
       ELSE [d EXCEPT !.recipe_search_index =
                @ (+) SetToBag({[recipe_id |-> new.id, search_text |-> text]})]

\* update_search_index with INSERT OR IGNORE: a NULL search_text is skipped
update_search_index_or_ignore(d, new) ==
    LET text == SearchText(new)
    IN IF text = NOTEXT
       THEN [d EXCEPT !.recipe_search_index = IndexWithout(@, new.id)]
       ELSE [d EXCEPT !.recipe_search_index =
                IndexWithout(@, new.id)
                    (+) SetToBag({[recipe_id |-> new.id, search_text |-> text]})]

update_search_index(d, new) ==
    LET text == SearchText(new)
    IN IF text = NOTEXT
       THEN Fail(d, "NOT NULL")
       ELSE [d EXCEPT !.recipe_search_index =
                IndexWithout(@, new.id)
                    (+) SetToBag({[recipe_id |-> new.id, search_text |-> text]})]

\* update_recipe_timestamp absent: the assigned updated_at stays
update_recipe_timestamp_absent(d, new, t) == d

\* update_recipe_timestamp: its UPDATE recipes fires update_search_index again
\* (on the row as it now is) but not itself
update_recipe_timestamp(d, new, t) ==
    LET d1 == [d EXCEPT !.recipes[new.id].updated_at = t]
    IN update_search_index(d1, d1.recipes[new.id])

\* UPDATE recipes SET <row> WHERE id = r, firing no trigger
UpdateRecipeRowFiresNothing(d, r, row, t, order) ==
    IF r \notin DOMAIN d.recipes THEN d
    ELSE [d EXCEPT !.recipes[r] = row]

\* UPDATE recipes SET <row> WHERE id = r, with its two AFTER UPDATE triggers
UpdateRecipeRow(d, r, row, t, order) ==
    IF r \notin DOMAIN d.recipes THEN d
    ELSE LET d1 == [d EXCEPT !.recipes[r] = row]
         IN IF order = "index_first"
            THEN update_recipe_timestamp(update_search_index(d1, row), row, t)
            ELSE update_search_index(update_recipe_timestamp(d1, row, t), row)

\* update_recipe_rating_insert: AVG is not COALESCEd here
update_recipe_rating_insert_rating_only(d, new, t, order) ==
    IF new.recipe_id \notin DOMAIN d.recipes THEN d
    ELSE UpdateRecipeRow(d, new.recipe_id,
            [d.recipes[new.recipe_id] EXCEPT
                !.rating = AVG(ReviewsOf(d, new.recipe_id))],
            t, order)

update_recipe_rating_insert_count_only(d, new, t, order) ==
    IF new.recipe_id \notin DOMAIN d.recipes THEN d
    ELSE UpdateRecipeRow(d, new.recipe_id,
            [d.recipes[new.recipe_id] EXCEPT
                !.review_count = Cardinality(ReviewsOf(d, new.recipe_id))],
            t, order)

update_recipe_rating_insert(d, new, t, order) ==
    IF new.recipe_id \notin DOMAIN d.recipes THEN d
    ELSE UpdateRecipeRow(d, new.recipe_id,
            [d.recipes[new.recipe_id] EXCEPT
                !.rating = AVG(ReviewsOf(d, new.recipe_id)),
                !.review_count = Cardinality(ReviewsOf(d, new.recipe_id))],
            t, order)

update_recipe_rating_delete_no_coalesce(d, old, t, order) ==
    IF old.recipe_id \notin DOMAIN d.recipes THEN d
    ELSE UpdateRecipeRow(d, old.recipe_id,
            [d.recipes[old.recipe_id] EXCEPT
                !.rating = AVG(ReviewsOf(d, old.recipe_id)),
                !.review_count = Cardinality(ReviewsOf(d, old.recipe_id))],
            t, order)

update_recipe_rating_delete(d, old, t, order) ==
    IF old.recipe_id \notin DOMAIN d.recipes THEN d
    ELSE UpdateRecipeRow(d, old.recipe_id,
            [d.recipes[old.recipe_id] EXCEPT
                !.rating = COALESCE(AVG(ReviewsOf(d, old.recipe_id)), Whole(0)),
                !.review_count = Cardinality(ReviewsOf(d, old.recipe_id))],
            t, order)

----------------------------------------------------------------------------
(* Statements: one SQL statement with its constraints, triggers and          *)
(* foreign-key actions.                                                      *)

\* INSERT INTO recipe_categories (recipe_id, category_id) VALUES (r, c):
\* UNIQUE(recipe_id, category_id) is tested as the row is written, before the
\* AFTER INSERT trigger; the two immediate foreign keys are tested when the
\* statement ends, after the trigger has run
InsertRecipeCategory(d, r, c, t) ==
    IF <<r, c>> \in d.recipe_categories
    THEN Fail(d, "UNIQUE")
    ELSE LET d1 == update_category_recipe_count_insert(
                      [d EXCEPT !.recipe_categories = @ \cup {<<r, c>>}], <<r, c>>, t)
         IN IF r \notin DOMAIN d.recipes \/ c \notin DOMAIN d.categories
            THEN Fail(d1, "FOREIGN KEY")
            ELSE d1

\* DELETE FROM recipe_categories WHERE recipe_id = r AND category_id = c
DeleteRecipeCategory(d, r, c, t) ==
    IF <<r, c>> \notin d.recipe_categories THEN d
    ELSE update_category_recipe_count_delete(
            [d EXCEPT !.recipe_categories = @ \ {<<r, c>>}], <<r, c>>, t)

\* UPDATE categories SET <col> = val WHERE id = c (a parent_id of 0 is NULL)
UpdateCategory(d, c, col, val, t) ==
    IF c \notin DOMAIN d.categories THEN d
    ELSE IF col = "parent_id" /\ val # 0 /\ val \notin DOMAIN d.categories
    THEN Fail(d, "FOREIGN KEY")
    ELSE update_category_timestamp([d EXCEPT !.categories[c][col] = val], c, t)

ReviewStatuses == {"pending", "published", "rejected"}

\* CHECK(rating >= 1 AND rating <= 5) on a column declared INTEGER NOT NULL
ReviewRatingCheck(x) ==
    ~IsNull(x) /\ RatLeq(Whole(1), x) /\ RatLeq(x, Whole(5))

\* INSERT INTO reviews with foreign keys not enforced
InsertReviewRowNoForeignKey(d, r, x, st, t, order) ==
    IF ~ReviewRatingCheck(x) \/ st \notin ReviewStatuses
    THEN Fail(d, "CHECK")
    ELSE LET row == [id |-> d.seq.reviews + 1, recipe_id |-> r, rating |-> x,
                     status |-> st]
         IN update_recipe_rating_insert(
                [d EXCEPT !.reviews = @ \cup {row}, !.seq.reviews = @ + 1],
                row, t, order)

\* INSERT INTO reviews (recipe_id, rating, status) VALUES (r, x, st)
InsertReviewRow(d, r, x, st, t, order) ==
    IF ~ReviewRatingCheck(x) \/ st \notin ReviewStatuses
    THEN Fail(d, "CHECK")
    ELSE IF r \notin DOMAIN d.recipes
    THEN Fail(d, "FOREIGN KEY")
    ELSE LET row == [id |-> d.seq.reviews + 1, recipe_id |-> r, rating |-> x,
                     status |-> st]
         IN update_recipe_rating_insert(
                [d EXCEPT !.reviews = @ \cup {row}, !.seq.reviews = @ + 1],
                row, t, order)

\* DELETE FROM reviews WHERE id = <row.id>
DeleteReviewRow(d, row, t, order) ==
    IF row \notin d.reviews THEN d
    ELSE update_recipe_rating_delete([d EXCEPT !.reviews = @ \ {row}], row, t, order)

RecipeStatuses == {"draft", "published", "archived"}

\* INSERT INTO recipes (slug, title, description, tags, ingredients, instructions)
\* VALUES (...): no trigger is defined on INSERT; rating, review_count, status
\* and updated_at take their column defaults
InsertRecipeRow(d, f, t) ==
    IF f.title = NOTEXT \/ f.ingredients = NOTEXT \/ f.instructions = NOTEXT
    THEN Fail(d, "NOT NULL")
    ELSE IF \E r \in DOMAIN d.recipes : d.recipes[r].slug = f.slug
    THEN Fail(d, "UNIQUE")
    ELSE LET id == d.seq.recipes + 1
             row == [id |-> id, slug |-> f.slug, title |-> f.title,
                     description |-> f.description, tags |-> f.tags,
                     ingredients |-> f.ingredients, instructions |-> f.instructions,
                     rating |-> Whole(0), review_count |-> 0,
                     status |-> "published", created_at |-> t, updated_at |-> t]
         IN [d EXCEPT !.recipes = [x \in DOMAIN @ \cup {id} |->
                                      IF x = id THEN row ELSE @[x]],
                      !.seq.recipes = id]

\* UPDATE recipes SET <col> = val WHERE id = r
UpdateRecipe(d, r, col, val, t, order) ==
    IF r \notin DOMAIN d.recipes THEN d
    ELSE IF col \in {"title", "ingredients", "instructions"} /\ val = NOTEXT
    THEN Fail(d, "NOT NULL")
    ELSE IF col = "status" /\ val \notin RecipeStatuses
    THEN Fail(d, "CHECK")
    ELSE UpdateRecipeRow(d, r, [d.recipes[r] EXCEPT ![col] = val], t, order)

\* ON DELETE CASCADE into recipe_categories, row by row, each deleted row
\* firing update_category_recipe_count_delete
CascadeRecipeCategoriesSilently(d, rows, t) ==
    [d EXCEPT !.recipe_categories = @ \ rows]

RECURSIVE CascadeRecipeCategories(_, _, _)
CascadeRecipeCategories(d, rows, t) ==
    IF rows = {} THEN d
    ELSE LET x == CHOOSE y \in rows : TRUE
         IN CascadeRecipeCategories(
                update_category_recipe_count_delete(
                    [d EXCEPT !.recipe_categories = @ \ {x}], x, t),
                rows \ {x}, t)

\* ON DELETE CASCADE into reviews, row by row, each deleted row firing
\* update_recipe_rating_delete
RECURSIVE CascadeReviews(_, _, _, _)
CascadeReviews(d, rows, t, order) ==
    IF rows = {} THEN d
    ELSE LET x == CHOOSE y \in rows : TRUE
         IN CascadeReviews(
                update_recipe_rating_delete([d EXCEPT !.reviews = @ \ {x}], x, t, order),
                rows \ {x}, t, order)

\* DELETE FROM recipes WHERE id = r, with the cascades of the three child tables
DeleteRecipeKeepsReviews(d, r, t, order) ==
    IF r \notin DOMAIN d.recipes THEN d
    ELSE LET d1 == [d EXCEPT !.recipes = [x \in DOMAIN @ \ {r} |-> @[x]]]
             d2 == CascadeRecipeCategories(d1,
                        {rc \in d1.recipe_categories : rc[1] = r}, t)
         IN [d2 EXCEPT !.recipe_search_index = IndexWithout(@, r)]

DeleteRecipe(d, r, t, order) ==
    IF r \notin DOMAIN d.recipes THEN d
    ELSE LET d1 == [d EXCEPT !.recipes = [x \in DOMAIN @ \ {r} |-> @[x]]]
             d2 == CascadeRecipeCategories(d1,
                        {rc \in d1.recipe_categories : rc[1] = r}, t)
             d3 == CascadeReviews(d2, ReviewsOf(d2, r), t, order)
         IN [d3 EXCEPT !.recipe_search_index = IndexWithout(@, r)]

\* DELETE FROM categories with the parent_id foreign key not enforced
DeleteCategoryIgnoresChildren(d, c, t) ==
    IF c \notin DOMAIN d.categories THEN d
    ELSE LET d1 == [d EXCEPT !.categories = [x \in DOMAIN @ \ {c} |-> @[x]]]
         IN CascadeRecipeCategories(d1, {rc \in d1.recipe_categories : rc[2] = c}, t)

\* DELETE FROM categories WHERE id = c: parent_id has no ON DELETE action, so
\* a sub-category blocks it; recipe_categories cascades
DeleteCategory(d, c, t) ==
    IF c \notin DOMAIN d.categories THEN d
    ELSE IF \E k \in DOMAIN d.categories \ {c} : d.categories[k].parent_id = c
    THEN Fail(d, "FOREIGN KEY")
    ELSE LET d1 == [d EXCEPT !.categories = [x \in DOMAIN @ \ {c} |-> @[x]]]
         IN CascadeRecipeCategories(d1, {rc \in d1.recipe_categories : rc[2] = c}, t)

----------------------------------------------------------------------------
(* The seeded database (schema.sql 124-246).  Of the 22 seeded categories    *)
(* the model keeps the three that the seed links to a recipe (1 Breakfast,   *)
(* 5 Desserts, 20 No-Bake) and one that it links to none (2 Lunch).  The     *)
(* seeded texts are shortened to a few characters, mixed case kept.          *)

SeedCategories ==
    [c \in {1, 2, 5, 20} |->
        [id |-> c, parent_id |-> 0, recipe_count |-> 0, updated_at |-> 0]]

SeedRecipes ==
    [r \in {1, 2} |->
        [id |-> r,
         slug |-> IF r = 1 THEN "better-than-sex-fruit" ELSE "lemon-cream-cheese-cake",
         title |-> IF r = 1 THEN <<"A", "b">> ELSE <<"B", "a">>,
         description |-> <<"c">>, tags |-> <<"t">>,
         ingredients |-> <<"i">>, instructions |-> <<"s">>,
         rating |-> IF r = 1 THEN Frac(48, 10) ELSE Frac(46, 10),
         review_count |-> IF r = 1 THEN 342 ELSE 189,
         status |-> "published", created_at |-> 0, updated_at |-> 0]]

SeedRecipeCategories == {<<1, 5>>, <<1, 20>>, <<2, 5>>, <<2, 1>>}

SeedReviews ==
    {[id |-> 1, recipe_id |-> 1, rating |-> Whole(5), status |-> "published"],
     [id |-> 2, recipe_id |-> 1, rating |-> Whole(4), status |-> "published"],
     [id |-> 3, recipe_id |-> 2, rating |-> Whole(5), status |-> "published"],
     [id |-> 4, recipe_id |-> 2, rating |-> Whole(4), status |-> "published"]}

\* UPDATE categories SET recipe_count = (SELECT COUNT(*) ...)
SeedCategoryCounts(cats, rcs) ==
    [c \in DOMAIN cats |->
        [cats[c] EXCEPT !.recipe_count = Cardinality({rc \in rcs : rc[2] = c})]]

\* UPDATE recipes SET rating = AVG, review_count = COUNT
\* WHERE id IN (SELECT DISTINCT recipe_id FROM reviews)
SeedRecipeRatings(recs, revs) ==
    [r \in DOMAIN recs |->
        IF \E x \in revs : x.recipe_id = r
        THEN [recs[r] EXCEPT
                !.rating = AVG({x \in revs : x.recipe_id = r}),
                !.review_count = Cardinality({x \in revs : x.recipe_id = r})]
        ELSE recs[r]]

\* INSERT INTO recipe_search_index SELECT id, LOWER(...) FROM recipes
SeedSearchIndex(recs) ==
    SetToBag({[recipe_id |-> r, search_text |-> SearchText(recs[r])] : r \in DOMAIN recs})

NoRequest == [pc |-> "idle"]

\* no statement is running
NoChain == [write |-> "none", todo |-> <<>>, fired |-> 0, depth |-> 0]

Procs == {1, 2}

\* the calls of RecipeAPI.request that may be in progress at once
Calls == {1, 2}
\* a response body names the request it answers and says how many reviews
\* the server had accepted when it answered
NoBody == [url |-> <<>>, method |-> "none", posted |-> 0]
NoResponse == [ok |-> FALSE, json |-> FALSE, body |-> NoBody]
NoCall == [pc |-> "idle", caller |-> "none", method |-> "none", url |-> <<>>,
           response |-> NoResponse, data |-> NoBody, from_cache |-> FALSE,
           after |-> 0]

\* the recipe ids passed to the favorites' methods
FavoriteIdInputs == {1, 2, 3}
\* the data manager has done nothing yet; ops is the last of addToFavorites
\* and removeFromFavorites called for each id
NoOperation == [op |-> "none", id |-> 0, result |-> FALSE,
                ops |-> [id \in FavoriteIdInputs |-> "none"]]
\* let timeout: no timer is set
NoTimer == [set |-> FALSE, due |-> 0, args |-> "none"]
\* the returned function has not been called yet.  at and args are the time
\* and the arguments of its most recent call, answered whether func has been
\* invoked since; invoked counts func's invocations, the last one made at
\* invoked_at with invoked_args
NoBurst == [called |-> FALSE, at |-> 0, args |-> "none", answered |-> FALSE,
            invoked |-> 0, invoked_at |-> 0, invoked_args |-> "none"]

Init ==
    /\ categories = SeedCategoryCounts(SeedCategories, SeedRecipeCategories)
    /\ recipes = SeedRecipeRatings(SeedRecipes, SeedReviews)
    /\ recipe_categories = SeedRecipeCategories
    /\ reviews = SeedReviews
    /\ recipe_search_index = SeedSearchIndex(SeedRecipes)
    /\ seq = [recipes |-> 2, reviews |-> 4]
    /\ now = 0
    /\ last = [op |-> "seed", id |-> 0, ok |-> TRUE, err |-> "ok", pre |-> <<>>]
    /\ req = [p \in Procs |-> NoRequest]
    /\ rd = [p \in Procs |-> NoRequest]
    /\ chain = NoChain
    /\ clock = 0
    /\ cache = << >>
    /\ calls = [c \in Calls |-> NoCall]
    /\ server = 0
    /\ resolved = 0
    /\ favorites = << >>
    /\ recentlyViewed = << >>
    /\ localStorage = [recipe_favorites |-> << >>, recently_viewed_recipes |-> << >>]
    /\ done = NoOperation
    /\ timeout = NoTimer
    /\ burst = NoBurst

----------------------------------------------------------------------------
(* Running a statement: commit its result, or roll back when it failed *)

\* a statement that failed keeps what it had written so far
RunCommitsFailed(d, op, id, pre) ==
    /\ categories' = d.categories
    /\ recipes' = d.recipes
    /\ recipe_categories' = d.recipe_categories
    /\ reviews' = d.reviews
    /\ recipe_search_index' = d.recipe_search_index
    /\ seq' = d.seq
    /\ last' = [op |-> op, id |-> id, ok |-> d.err = "ok", err |-> d.err, pre |-> pre]

Run(d, op, id, pre) ==
    /\ IF d.err = "ok"
       THEN /\ categories' = d.categories
            /\ recipes' = d.recipes
            /\ recipe_categories' = d.recipe_categories
            /\ reviews' = d.reviews
            /\ recipe_search_index' = d.recipe_search_index
            /\ seq' = d.seq
       ELSE UNCHANGED dbvars
    /\ last' = [op |-> op, id |-> id, ok |-> d.err = "ok", err |-> d.err, pre |-> pre]

RecipeIdInputs == 1..MaxRecipeId

CategoryIdInputs == {1, 2, 5, 20, 99}

\* the clock advances
Tick ==
    /\ now < MaxTime
    /\ now' = now + 1
    /\ UNCHANGED <<dbvars, last, req, rd, ext>>

\* a direct INSERT INTO recipe_categories
InsertAssociation ==
    \E r \in RecipeIdInputs, c \in CategoryIdInputs :
        /\ Run(InsertRecipeCategory(DB, r, c, now), "insert_association", c,
               IF c \in DOMAIN categories
               THEN [count |-> categories[c].recipe_count]
               ELSE <<>>)
        /\ UNCHANGED <<now, req, rd, ext>>

\* a direct DELETE FROM recipe_categories of one row
DeleteAssociation ==
    \E rc \in recipe_categories :
        /\ Run(DeleteRecipeCategory(DB, rc[1], rc[2], now), "delete_association", rc[2],
               IF rc[2] \in DOMAIN categories
               THEN [count |-> categories[rc[2]].recipe_count]
               ELSE <<>>)
        /\ UNCHANGED <<now, req, rd, ext>>

NextAssoc == InsertAssociation \/ DeleteAssociation

SpecAssoc == Init /\ [][NextAssoc]_vars

\* the rating values a writer may offer: none, 0.5, 1, 4.5, 6
RatingInputs == {NULL, Frac(1, 2), Whole(1), Frac(9, 2), Whole(6)}

StatusInputs == {"published", "pending", "spam"}

\* a direct INSERT INTO reviews
InsertReview ==
    \E r \in RecipeIdInputs, x \in RatingInputs, st \in StatusInputs, o \in TriggerOrders :
        /\ seq.reviews < MaxReviewId
        /\ Run(InsertReviewRow(DB, r, x, st, now, o), "insert_review", r, <<>>)
        /\ UNCHANGED <<now, req, rd, ext>>

\* a direct DELETE FROM reviews of one row
DeleteReview ==
    \E row \in reviews, o \in TriggerOrders :
        /\ Run(DeleteReviewRow(DB, row, now, o), "delete_review", row.recipe_id, <<>>)
        /\ UNCHANGED <<now, req, rd, ext>>

NextReviews == InsertReview \/ DeleteReview

SpecReviews == Init /\ [][NextReviews]_vars

\* what an INSERT INTO recipes may carry
RecipeInputs ==
    [slug : {"new-recipe", "better-than-sex-fruit"},
     title : {<<"B", "Eacute">>},
     description : {<<"c">>, NOTEXT},
     tags : {<<"t">>},
     ingredients : {<<"i">>},
     instructions : {<<"s">>}]

\* what an UPDATE recipes may assign to a content column
ColumnInputs(col) ==
    CASE col = "title" -> {<<"A", "b">>, <<"B", "Eacute">>, NOTEXT}
      [] col = "description" -> {<<"a", "b">>, NOTEXT}
      [] col = "tags" -> {<<"t">>, NOTEXT}

ContentColumns == {"title", "description", "tags"}

\* an INSERT INTO recipes
CreateRecipe ==
    \E f \in RecipeInputs :
        /\ seq.recipes < MaxRecipeId
        /\ Run(InsertRecipeRow(DB, f, now), "insert_recipe", seq.recipes + 1, <<>>)
        /\ UNCHANGED <<now, req, rd, ext>>

\* an UPDATE recipes SET col = val WHERE id = r
EditRecipe ==
    \E r \in RecipeIdInputs, col \in ContentColumns, o \in TriggerOrders :
        \E val \in ColumnInputs(col) :
            /\ Run(UpdateRecipe(DB, r, col, val, now, o), "update_recipe", r,
                   IF r \in DOMAIN recipes
                   THEN [title |-> recipes[r].title,
                         n |-> IndexCount(recipe_search_index, r)]
                   ELSE <<>>)
            /\ UNCHANGED <<now, req, rd, ext>>

\* a DELETE FROM recipes WHERE id = r
RemoveRecipe ==
    \E r \in RecipeIdInputs, o \in TriggerOrders :
        /\ Run(DeleteRecipe(DB, r, now, o), "delete_recipe", r,
               IF r \in DOMAIN recipes
               THEN [associations |-> {rc \in recipe_categories : rc[1] = r},
                     reviews |-> Cardinality({x \in reviews : x.recipe_id = r}),
                     index |-> IndexCount(recipe_search_index, r)]
               ELSE <<>>)
        /\ UNCHANGED <<now, req, rd, ext>>

\* a direct INSERT INTO recipe_search_index (recipe_id, search_text) VALUES (r, 'z')
InsertIndexRow ==
    \E r \in RecipeIdInputs :
        /\ IndexCount(recipe_search_index, r) < MaxIndexRows
        /\ Run(IF r \in DOMAIN recipes
               THEN [DB EXCEPT !.recipe_search_index =
                        @ (+) SetToBag({[recipe_id |-> r, search_text |-> <<"z">>]})]
               ELSE Fail(DB, "FOREIGN KEY"),
               "insert_index", r, <<>>)
        /\ UNCHANGED <<now, req, rd, ext>>

NextRecipes == CreateRecipe \/ EditRecipe \/ RemoveRecipe

SpecRecipes == Init /\ [][NextRecipes]_vars

NextIndex == CreateRecipe \/ EditRecipe \/ InsertIndexRow

SpecIndex == Init /\ [][NextIndex]_vars

\* the updated_at values a client may put in its UPDATE: one in the past, one
\* in the future
ClientTimes == {0, MaxTime + 1}

\* UPDATE recipes SET updated_at = val WHERE id = r
TouchRecipe ==
    \E r \in RecipeIdInputs, val \in ClientTimes, o \in TriggerOrders :
        /\ Run(UpdateRecipe(DB, r, "updated_at", val, now, o), "touch_recipe", r,
               IF r \in DOMAIN recipes
               THEN [supplied |-> val, before |-> recipes[r].updated_at]
               ELSE <<>>)
        /\ UNCHANGED <<now, req, rd, ext>>

\* UPDATE categories SET updated_at = val WHERE id = c
TouchCategory ==
    \E c \in CategoryIdInputs, val \in ClientTimes :
        /\ Run(UpdateCategory(DB, c, "updated_at", val, now), "touch_category", c,
               IF c \in DOMAIN categories
               THEN [supplied |-> val, before |-> categories[c].updated_at]
               ELSE <<>>)
        /\ UNCHANGED <<now, req, rd, ext>>

NextTimestamps == Tick \/ TouchRecipe \/ TouchCategory

SpecTimestamps == Init /\ [][NextTimestamps]_vars

\* a no-op update, UPDATE recipes SET title = title WHERE id = r: it changes
\* no content and fires the materialization of the index row
Rematerialize ==
    \E r \in DOMAIN recipes, o \in TriggerOrders :
        /\ Run(UpdateRecipe(DB, r, "title", recipes[r].title, now, o), "rematerialize", r,
               [again |-> last.op = "rematerialize" /\ last.ok /\ last.id = r,
                rows |-> IndexRowsOf(recipe_search_index, r)])
        /\ UNCHANGED <<now, req, rd, ext>>

NextRematerialize == CreateRecipe \/ InsertIndexRow \/ Rematerialize

SpecRematerialize == Init /\ [][NextRematerialize]_vars

\* the categories whose recipe_count a direct UPDATE may set, and the wrong
\* values it may set it to
DriftCategoryInputs == {2, 5, 99}

DriftCountInputs == {0, 7}

\* UPDATE categories SET recipe_count = n WHERE id = c: nothing ties the
\* column to the association rows outside the two triggers
SetRecipeCount ==
    \E c \in DriftCategoryInputs, n \in DriftCountInputs :
        /\ Run(UpdateCategory(DB, c, "recipe_count", n, now), "set_recipe_count", c, <<>>)
        /\ UNCHANGED <<now, req, rd, ext>>

NextDrift == InsertAssociation \/ DeleteAssociation \/ SetRecipeCount

SpecDrift == Init /\ [][NextDrift]_vars

\* a DELETE FROM categories WHERE id = c
RemoveCategory ==
    \E c \in CategoryIdInputs :
        /\ Run(DeleteCategory(DB, c, now), "delete_category", c,
               IF c \in DOMAIN categories
               THEN [associations |-> {rc \in recipe_categories : rc[2] = c},
                     children |-> {k \in DOMAIN categories \ {c} :
                                      categories[k].parent_id = c}]
               ELSE <<>>)
        /\ UNCHANGED <<now, req, rd, ext>>

\* the parents an UPDATE may give a category: none, Lunch, Desserts, a
\* category that does not exist
ParentInputs == {0, 2, 5, 99}

\* UPDATE categories SET parent_id = k WHERE id = c
SetParent ==
    \E c \in CategoryIdInputs, k \in ParentInputs :
        /\ Run(UpdateCategory(DB, c, "parent_id", k, now), "set_parent", c, <<>>)
        /\ UNCHANGED <<now, req, rd, ext>>

NextCategoryTree == SetParent \/ RemoveCategory

SpecCategoryTree == Init /\ [][NextCategoryTree]_vars

NextCascade == InsertAssociation \/ RemoveRecipe \/ RemoveCategory

SpecCascade == Init /\ [][NextCascade]_vars

----------------------------------------------------------------------------
(* The Worker API (part_000).  A handler runs up to its next await in one    *)
(* step; each SQL statement it awaits is one step of the database.           *)

SlugInputs ==
    {"better-than-sex-fruit", "lemon-cream-cheese-cake", "new-recipe", "no-such-recipe"}

NameInputs == {"", "Ann"}

\* addReview's validation:
\* !reviewer_name || !rating || rating < 1 || rating > 5 rejects the body
ReviewBodyValid(name, x) ==
    /\ name # ""
    /\ ~IsNull(x) /\ x # Whole(0)
    /\ ~(RatLeq(x, Whole(1)) /\ x # Whole(1))
    /\ ~(RatLeq(Whole(5), x) /\ x # Whole(5))

Responded(code, r, x, c) ==
    [pc |-> "done", status |-> code, recipe_id |-> r, rating |-> x, concurrent |-> c]

InFlight(p) == req[p].pc \in {"lookup", "insert"}

\* addReview, from the call to the first query: the body is parsed and validated
AddReviewParse(p) ==
    /\ req[p].pc = "idle"
    /\ \E slug \in SlugInputs, name \in NameInputs, x \in RatingInputs :
          req' = [req EXCEPT ![p] =
                    IF ReviewBodyValid(name, x)
                    THEN [pc |-> "lookup", slug |-> slug, rating |-> x,
                          concurrent |-> \E q \in Procs \ {p} : InFlight(q)]
                    ELSE Responded(400, 0, NULL, FALSE)]
    /\ UNCHANGED <<dbvars, now, last, rd, ext>>

\* SELECT id FROM recipes WHERE slug = ?
AddReviewLookup(p) ==
    /\ req[p].pc = "lookup"
    /\ LET found == {r \in DOMAIN recipes : recipes[r].slug = req[p].slug}
       IN req' = [req EXCEPT ![p] =
                    IF found = {}
                    THEN Responded(404, 0, NULL, @.concurrent)
                    ELSE [pc |-> "insert", recipe_id |-> CHOOSE r \in found : TRUE,
                          rating |-> @.rating, concurrent |-> @.concurrent]]
    /\ UNCHANGED <<dbvars, now, last, rd, ext>>

\* INSERT INTO reviews (recipe_id, reviewer_name, reviewer_email, rating, title,
\* comment): status takes its default, 'published'; a failed statement throws
\* and the handler answers 500
AddReviewInsert(p) ==
    /\ req[p].pc = "insert"
    /\ seq.reviews < MaxReviewId
    /\ \E o \in TriggerOrders :
          LET d == InsertReviewRow(DB, req[p].recipe_id, req[p].rating, "published",
                                   now, o)
          IN /\ Run(d, "insert_review", req[p].recipe_id, <<>>)
             /\ req' = [req EXCEPT ![p] =
                          Responded(IF d.err = "ok" THEN 201 ELSE 500,
                                    @.recipe_id, @.rating, @.concurrent)]
    /\ UNCHANGED <<now, rd, ext>>

AddReviewStep(p) == AddReviewParse(p) \/ AddReviewLookup(p) \/ AddReviewInsert(p)

AddReview == \E p \in Procs : AddReviewStep(p)

NextAddReview == AddReview

SpecAddReview == Init /\ [][NextAddReview]_vars

\* writes whose triggers rebuild the search index: recipe updates, and an
\* addReview through the recipe update that the review's trigger makes
NextMaintenance == CreateRecipe \/ EditRecipe \/ AddReviewStep(1)

SpecMaintenance == Init /\ [][NextMaintenance]_vars

\* addReview requests while recipes are being deleted
NextAddReviewDelete == AddReview \/ RemoveRecipe

SpecAddReviewDelete == Init /\ [][NextAddReviewDelete]_vars

\* getRecipe, first query: SELECT r.* ... WHERE r.slug = ? AND r.status =
\* 'published'.  seen_reviews records the review rows the database held when
\* the row was read (history, for the reader's view)
GetRecipeRead(p) ==
    /\ rd[p].pc = "idle"
    /\ \E slug \in SlugInputs :
          LET found == {r \in DOMAIN recipes :
                            recipes[r].slug = slug /\ recipes[r].status = "published"}
          IN rd' = [rd EXCEPT ![p] =
                      IF found = {}
                      THEN [pc |-> "done", kind |-> "none", status |-> 404]
                      ELSE LET r == CHOOSE x \in found : TRUE
                           IN [pc |-> "recipe_read", kind |-> "recipe", id |-> r,
                               rating |-> recipes[r].rating,
                               review_count |-> recipes[r].review_count,
                               seen_reviews |-> {x \in reviews : x.recipe_id = r}]]
    /\ UNCHANGED <<dbvars, now, last, req, ext>>

\* getRecipe, second query: the categories of the recipe; then the response
GetRecipeCategories(p) ==
    /\ rd[p].pc = "recipe_read"
    /\ rd' = [rd EXCEPT ![p] =
                [pc |-> "done", kind |-> "recipe", status |-> 200, id |-> @.id,
                 rating |-> @.rating, review_count |-> @.review_count,
                 seen_reviews |-> @.seen_reviews,
                 categories |-> {rc[2] : rc \in {x \in recipe_categories : x[1] = @.id}}]]
    /\ UNCHANGED <<dbvars, now, last, req, ext>>

\* getCategory: SELECT * FROM categories WHERE slug = ? (the id stands for
\* the slug).  seen_associations records how many association rows the
\* database held for the category when the row was read (history)
GetCategory(p) ==
    /\ rd[p].pc = "idle"
    /\ \E c \in CategoryIdInputs :
          rd' = [rd EXCEPT ![p] =
                    IF c \notin DOMAIN categories
                    THEN [pc |-> "done", kind |-> "none", status |-> 404]
                    ELSE [pc |-> "done", kind |-> "category", status |-> 200, id |-> c,
                          recipe_count |-> categories[c].recipe_count,
                          seen_associations |->
                              Cardinality({rc \in recipe_categories : rc[2] = c})]]
    /\ UNCHANGED <<dbvars, now, last, req, ext>>

\* the response is sent; the next read request may come
ReadDone(p) ==
    /\ rd[p].pc = "done"
    /\ rd' = [rd EXCEPT ![p] = NoRequest]
    /\ UNCHANGED <<dbvars, now, last, req, ext>>

Readers == {1}

Read ==
    \E p \in Readers :
        GetRecipeRead(p) \/ GetRecipeCategories(p) \/ GetCategory(p) \/ ReadDone(p)

\* searchRecipes: parseInt(searchParams.get('limit')) || 20
DefaultLimit == 20

QueryInputs ==
    {<<>>, <<" ">>, <<"a">>, <<"A", "b">>, <<"a", "_">>, <<"%">>, <<"Eacute">>, <<"z">>}

LimitInputs == {1, DefaultLimit}

OffsetInputs == {0, 1}

\* the recipes the search statement selects: published, joined to an index
\* row whose search_text is LIKE the pattern (DISTINCT: once each)
SearchMatches(pattern) ==
    {r \in DOMAIN recipes :
        /\ recipes[r].status = "published"
        /\ \E x \in DOMAIN IndexRowsOf(recipe_search_index, r) :
              LIKE(x.search_text, pattern)}

\* ORDER BY r.rating DESC, r.created_at DESC: a may come before b
MayPrecede(a, b) ==
    \/ ~RatLeq(a.rating, b.rating)
    \/ /\ RatLeq(b.rating, a.rating) /\ RatLeq(a.rating, b.rating)
       /\ a.created_at >= b.created_at

\* the orders in which the statement may return the rows of S
SearchOrders(S) ==
    {s \in [1..Cardinality(S) -> S] :
        /\ \A i, j \in 1..Cardinality(S) : i # j => s[i] # s[j]
        /\ \A i, j \in 1..Cardinality(S) :
              i < j => MayPrecede(recipes[s[i]], recipes[s[j]])}

\* LIMIT limit OFFSET offset
Page(s, limit, offset) ==
    SubSeq(s, offset + 1, IF Len(s) < offset + limit THEN Len(s) ELSE offset + limit)

\* searchRecipes with q, limit and offset and no other filter: a blank q is
\* answered 400; otherwise one SELECT with the pattern '%' + q.toLowerCase()
\* + '%', and the rows it returns are the response's data
SearchRecipes(p) ==
    /\ rd[p].pc = "idle"
    /\ \E q \in QueryInputs, limit \in LimitInputs, offset \in OffsetInputs :
          IF TrimIsEmpty(q)
          THEN rd' = [rd EXCEPT ![p] =
                        [pc |-> "done", kind |-> "search", status |-> 400, q |-> q]]
          ELSE \E s \in SearchOrders(SearchMatches(<<"%">> \o ToLowerCase(q) \o <<"%">>)) :
                  rd' = [rd EXCEPT ![p] =
                            [pc |-> "done", kind |-> "search", status |-> 200, q |-> q,
                             limit |-> limit, offset |-> offset,
                             data |-> Page(s, limit, offset),
                             matched |-> Len(s),
                             total |-> Len(Page(s, limit, offset)),
                             hasMore |-> Len(Page(s, limit, offset)) = limit]]
    /\ UNCHANGED <<dbvars, now, last, req, ext>>

\* UPDATE recipes SET status = 'archived' WHERE id = r
ArchiveRecipe ==
    \E r \in RecipeIdInputs, o \in TriggerOrders :
        /\ Run(UpdateRecipe(DB, r, "status", "archived", now, o), "archive_recipe", r, <<>>)
        /\ UNCHANGED <<now, req, rd, ext>>

\* searches among recipe creations, materializations and archivings
NextSearch ==
    CreateRecipe \/ Rematerialize \/ ArchiveRecipe \/ SearchRecipes(1) \/ ReadDone(1)

SpecSearch == Init /\ [][NextSearch]_vars

----------------------------------------------------------------------------
(* The listing handlers of the Worker API.  Each is modelled up to the       *)
(* statement it executes: the ORDER BY spliced into the SQL text, LIMIT and  *)
(* OFFSET, how many rows the statement matches and how many it returns.      *)
(* The filters other than the path's slug are left unset.                    *)

\* getCategories: parseInt(searchParams.get('limit')) || 50
CategoriesDefaultLimit == 50
\* getRecipeReviews: parseInt(searchParams.get('limit')) || 10
ReviewsDefaultLimit == 10

\* what a request may put in sort_by ("" is an absent parameter)
SortByInputs ==
    {"", "created_at", "updated_at", "title", "rating", "total_time", "prep_time",
     "helpful_count", "id; DROP TABLE reviews; --"}

\* what a request may put in sort_order
SortOrderInputs == {"", "ASC", "DESC", "asc", "desc", "DESC; DROP TABLE REVIEWS; --"}

ListLimitInputs(default) == {1, 2, default}

ListOffsetInputs == {0, 1, 2}

\* JavaScript's a || b on strings
OrDefault(v, default) == IF v = "" THEN default ELSE v

\* String.prototype.toUpperCase on the words the requests carry
ToUpperCaseWord(w) ==
    CASE w = "asc" -> "ASC"
      [] w = "desc" -> "DESC"
      [] OTHER -> w

\* the validSortColumns of each handler
ValidSortColumns(endpoint) ==
    CASE endpoint = "recipes" ->
            {"created_at", "updated_at", "title", "rating", "total_time", "prep_time"}
      [] endpoint = "category_recipes" ->
            {"created_at", "updated_at", "title", "rating", "total_time"}
      [] endpoint = "reviews" -> {"created_at", "rating", "helpful_count"}

ValidSortOrders == {"ASC", "DESC"}

\* validSortColumns.includes(sortBy) ? sortBy : 'created_at'
ValidSortColumn(endpoint, sortBy) ==
    IF sortBy \in ValidSortColumns(endpoint) THEN sortBy ELSE "created_at"

\* ['ASC', 'DESC'].includes(sortOrder.toUpperCase()) ? sortOrder.toUpperCase() : 'DESC'
ValidSortOrder(sortOrder) ==
    IF ToUpperCaseWord(sortOrder) \in ValidSortOrders
    THEN ToUpperCaseWord(sortOrder) ELSE "DESC"

\* the ORDER BY each handler splices into its SQL text: getRecipes the
\* validated pair; getCategoryRecipes and getRecipeReviews build the text
\* from sortBy and sortOrder before they compute the validated pair, which
\* they then do not use
OrderByOf(endpoint, sortBy, sortOrder) ==
    IF endpoint = "recipes"
    THEN <<ValidSortColumn(endpoint, sortBy), ValidSortOrder(sortOrder)>>
    ELSE <<sortBy, sortOrder>>

\* the statuses with which a statement with this ORDER BY may come back: a
\* sort by a column of the table succeeds; what any other text makes of the
\* statement is not known
ListStatuses(table, by) ==
    IF /\ by[1] \in ValidSortColumns(table) \cup ValidSortColumns("recipes")
       /\ ToUpperCaseWord(by[2]) \in ValidSortOrders
    THEN {200} ELSE {200, 500}

\* how many rows LIMIT limit OFFSET offset returns of n matching rows
Returned(n, limit, offset) ==
    IF n <= offset THEN 0 ELSE IF n - offset < limit THEN n - offset ELSE limit

\* the response of a listing handler: total is data.length and hasMore is
\* data.length === limit; matched is how many rows the statement matched
\* before LIMIT and OFFSET (history)
ListResponse(endpoint, status, by, limit, offset, n) ==
    IF status = 200
    THEN [pc |-> "done", kind |-> "list", endpoint |-> endpoint, status |-> 200,
          order_by |-> by, limit |-> limit, offset |-> offset, matched |-> n,
          total |-> Returned(n, limit, offset),
          hasMore |-> Returned(n, limit, offset) = limit]
    ELSE [pc |-> "done", kind |-> "list", endpoint |-> endpoint, status |-> 500,
          order_by |-> by, limit |-> limit, offset |-> offset, matched |-> n,
          total |-> 0, hasMore |-> FALSE]

\* getCategories: ORDER BY sort_order ASC, name ASC LIMIT ? OFFSET ?
GetCategories(p) ==
    /\ rd[p].pc = "idle"
    /\ \E limit \in ListLimitInputs(CategoriesDefaultLimit), offset \in ListOffsetInputs :
          rd' = [rd EXCEPT ![p] =
                    ListResponse("categories", 200, <<"sort_order", "ASC">>, limit, offset,
                                 Cardinality(DOMAIN categories))]
    /\ UNCHANGED <<dbvars, now, last, req, ext>>

\* getRecipes
GetRecipes(p) ==
    /\ rd[p].pc = "idle"
    /\ \E sortBy \in SortByInputs, sortOrder \in SortOrderInputs,
          limit \in ListLimitInputs(DefaultLimit), offset \in ListOffsetInputs :
          LET by == OrderByOf("recipes", OrDefault(sortBy, "created_at"),
                              OrDefault(sortOrder, "DESC"))
              n == Cardinality({r \in DOMAIN recipes : recipes[r].status = "published"})
          IN \E status \in ListStatuses("recipes", by) :
                rd' = [rd EXCEPT ![p] =
                          ListResponse("recipes", status, by, limit, offset, n)]
    /\ UNCHANGED <<dbvars, now, last, req, ext>>

\* getCategoryRecipes (the category's id stands for its slug)
GetCategoryRecipes(p) ==
    /\ rd[p].pc = "idle"
    /\ \E c \in CategoryIdInputs, sortBy \in SortByInputs, sortOrder \in SortOrderInputs,
          limit \in ListLimitInputs(DefaultLimit), offset \in ListOffsetInputs :
          LET by == OrderByOf("category_recipes", OrDefault(sortBy, "created_at"),
                              OrDefault(sortOrder, "DESC"))
              n == Cardinality({r \in DOMAIN recipes :
                                   /\ recipes[r].status = "published"
                                   /\ c \in DOMAIN categories
                                   /\ <<r, c>> \in recipe_categories})
          IN \E status \in ListStatuses("category_recipes", by) :
                rd' = [rd EXCEPT ![p] =
                          ListResponse("category_recipes", status, by, limit, offset, n)]
    /\ UNCHANGED <<dbvars, now, last, req, ext>>

\* getRecipeReviews, first query: SELECT id FROM recipes WHERE slug = ?
GetRecipeReviewsLookup(p) ==
    /\ rd[p].pc = "idle"
    /\ \E slug \in SlugInputs, sortBy \in SortByInputs, sortOrder \in SortOrderInputs,
          limit \in ListLimitInputs(ReviewsDefaultLimit), offset \in ListOffsetInputs :
          LET found == {r \in DOMAIN recipes : recipes[r].slug = slug}
          IN rd' = [rd EXCEPT ![p] =
                      IF found = {}
                      THEN [pc |-> "done", kind |-> "none", status |-> 404]
                      ELSE [pc |-> "reviews_list", kind |-> "lookup",
                            id |-> CHOOSE r \in found : TRUE,
                            sort_by |-> OrDefault(sortBy, "created_at"),
                            sort_order |-> OrDefault(sortOrder, "DESC"),
                            limit |-> limit, offset |-> offset]]
    /\ UNCHANGED <<dbvars, now, last, req, ext>>

\* getRecipeReviews, second query: the page of published reviews
GetRecipeReviewsList(p) ==
    /\ rd[p].pc = "reviews_list"
    /\ LET by == OrderByOf("reviews", rd[p].sort_by, rd[p].sort_order)
           n == Cardinality({x \in reviews :
                                x.recipe_id = rd[p].id /\ x.status = "published"})
       IN \E status \in ListStatuses("reviews", by) :
             rd' = [rd EXCEPT ![p] =
                       IF status = 200
                       THEN [ListResponse("reviews", 200, by, @.limit, @.offset, n)
                                EXCEPT !.pc = "reviews_stats"]
                            @@ [id |-> @.id]
                       ELSE ListResponse("reviews", 500, by, @.limit, @.offset, n)]
    /\ UNCHANGED <<dbvars, now, last, req, ext>>

\* getRecipeReviews, third query: COUNT(*) and AVG over the published
\* reviews; then the response
GetRecipeReviewsStats(p) ==
    /\ rd[p].pc = "reviews_stats"
    /\ LET ps == {x \in reviews : x.recipe_id = rd[p].id /\ x.status = "published"}
       IN rd' = [rd EXCEPT ![p] =
                    [@ EXCEPT !.pc = "done"]
                        @@ [total_reviews |-> Cardinality(ps), average_rating |-> AVG(ps)]]
    /\ UNCHANGED <<dbvars, now, last, req, ext>>

GetRecipeReviews(p) ==
    GetRecipeReviewsLookup(p) \/ GetRecipeReviewsList(p) \/ GetRecipeReviewsStats(p)

\* the listing requests against the seeded database
NextListings ==
    \/ GetCategories(1) \/ GetRecipes(1) \/ GetCategoryRecipes(1)
    \/ GetRecipeReviews(1) \/ SearchRecipes(1) \/ ReadDone(1)

SpecListings == Init /\ [][NextListings]_vars

\* Review writes and association writes touch disjoint tables and fire
\* disjoint triggers; the readers are run against the review writes with the
\* seeded associations in place, and against the association writes with the
\* seeded reviews in place and no addReview begun
ReviewWrites ==
    /\ recipe_categories = SeedRecipeCategories
    /\ AddReviewStep(2) \/ DeleteReview

AssociationWrites ==
    /\ reviews = SeedReviews /\ req[2].pc = "idle"
    /\ InsertAssociation \/ DeleteAssociation

NextReaders == ReviewWrites \/ AssociationWrites \/ Read

SpecReaders == Init /\ [][NextReaders]_vars

----------------------------------------------------------------------------
(* One statement, trigger program by trigger program.  The operators above   *)
(* give the result of a statement with everything it fires; here the same    *)
(* triggers are run one at a time, to see the chain each write sets off.     *)
(* todo is the work still to do for the running statement, innermost first:  *)
(* statements with the rows they have yet to visit, and trigger programs     *)
(* fired by a row; active is the set of trigger programs running above an    *)
(* item.                                                                     *)

\* how many rows one top-level statement or one cascade may touch
MaxRows == 2
\* how deep trigger programs may nest before the engine gives up
MaxDepth == 8

\* CREATE TRIGGER ... AFTER <event> ON <table> BEGIN <body> END.  A body
\* statement touches between min and max rows (WHERE id = ... : at most one)
TriggerDefs ==
    [update_category_recipe_count_insert |->
        [event |-> "INSERT", table |-> "recipe_categories",
         body |-> <<[event |-> "UPDATE", table |-> "categories", min |-> 0, max |-> 1]>>],
     update_category_recipe_count_delete |->
        [event |-> "DELETE", table |-> "recipe_categories",
         body |-> <<[event |-> "UPDATE", table |-> "categories", min |-> 0, max |-> 1]>>],
     update_recipe_rating_insert |->
        [event |-> "INSERT", table |-> "reviews",
         body |-> <<[event |-> "UPDATE", table |-> "recipes", min |-> 0, max |-> 1]>>],
     update_recipe_rating_delete |->
        [event |-> "DELETE", table |-> "reviews",
         body |-> <<[event |-> "UPDATE", table |-> "recipes", min |-> 0, max |-> 1]>>],
     update_search_index |->
        [event |-> "UPDATE", table |-> "recipes",
         body |-> <<[event |-> "DELETE", table |-> "recipe_search_index",
                     min |-> 0, max |-> MaxIndexRows],
                    [event |-> "INSERT", table |-> "recipe_search_index",
                     min |-> 1, max |-> 1]>>],
     update_recipe_timestamp |->
        [event |-> "UPDATE", table |-> "recipes",
         body |-> <<[event |-> "UPDATE", table |-> "recipes", min |-> 0, max |-> 1]>>],
     update_category_timestamp |->
        [event |-> "UPDATE", table |-> "categories",
         body |-> <<[event |-> "UPDATE", table |-> "categories", min |-> 0, max |-> 1]>>]]

Triggers == DOMAIN TriggerDefs

\* the tables whose rows ON DELETE CASCADE removes with a row of the table
CascadesOf(table) ==
    CASE table = "recipes" -> <<"recipe_categories", "reviews", "recipe_search_index">>
      [] table = "categories" -> <<"recipe_categories">>
      [] OTHER -> <<>>

\* the writes of the data layer: statement -> its event and table
Writes ==
    [insert_association |-> [event |-> "INSERT", table |-> "recipe_categories"],
     delete_association |-> [event |-> "DELETE", table |-> "recipe_categories"],
     insert_review |-> [event |-> "INSERT", table |-> "reviews"],
     delete_review |-> [event |-> "DELETE", table |-> "reviews"],
     update_recipe |-> [event |-> "UPDATE", table |-> "recipes"],
     delete_recipe |-> [event |-> "DELETE", table |-> "recipes"],
     update_category |-> [event |-> "UPDATE", table |-> "categories"],
     delete_category |-> [event |-> "DELETE", table |-> "categories"]]

\* recursive triggers on: a trigger program fires whatever is running
FiresRecursively(t, active) == TRUE

\* recursive_triggers is off: a trigger program does not fire while it is
\* itself running, directly or further up the chain
Fires(t, active) == t \notin active

StatementItem(event, table, rows, active, depth) ==
    [kind |-> "statement", name |-> event, table |-> table, rows |-> rows,
     active |-> active, depth |-> depth]

TriggerItem(t, active, depth) ==
    [kind |-> "trigger", name |-> t, table |-> TriggerDefs[t].table, rows |-> 0,
     active |-> active, depth |-> depth]

\* the AFTER triggers one row of a statement fires, in one of the orders
\* the engine may run them in
FiredBy(item, order) ==
    LET ts == {t \in Triggers :
                  /\ TriggerDefs[t].event = item.name
                  /\ TriggerDefs[t].table = item.table
                  /\ Fires(t, item.active)}
        first == IF order = "index_first" THEN "update_search_index"
                 ELSE "update_recipe_timestamp"
        F(t) == TriggerItem(t, item.active, item.depth + 1)
    IN IF Cardinality(ts) = 2
       THEN <<F(first), F(CHOOSE t \in ts : t # first)>>
       ELSE IF Cardinality(ts) = 1
       THEN <<F(CHOOSE t \in ts : TRUE)>>
       ELSE <<>>

\* a write begins: the statement is about to visit its rows
StartWrite ==
    /\ chain.write = "none"
    /\ \E w \in DOMAIN Writes, n \in 0..MaxRows :
          /\ Writes[w].event = "INSERT" => n = 1
          /\ chain' = [write |-> w,
                       todo |-> <<StatementItem(Writes[w].event, Writes[w].table, n, {}, 0)>>,
                       fired |-> 0, depth |-> 0]
    /\ UNCHANGED <<dbvars, now, last, req, rd, client>>

\* the statement at the head visits one more row: a deleted row takes its
\* cascaded child rows with it, and the row fires its AFTER triggers; or it
\* has visited all its rows and is done
RunStatement ==
    /\ chain.todo # <<>>
    /\ LET item == Head(chain.todo)
       IN /\ item.kind = "statement"
          /\ IF item.rows = 0
             THEN chain' = [chain EXCEPT !.todo = Tail(@)]
             ELSE \E o \in TriggerOrders, n \in [1..3 -> 0..MaxRows] :
                    LET cs == IF item.name = "DELETE" THEN CascadesOf(item.table)
                              ELSE <<>>
                        cascades == [i \in 1..Len(cs) |->
                                        StatementItem("DELETE", cs[i], n[i],
                                                      item.active, item.depth)]
                    IN /\ \A i \in 1..3 : i > Len(cs) => n[i] = 0
                       /\ chain' = [chain EXCEPT !.todo =
                                      cascades \o FiredBy(item, o)
                                        \o <<[item EXCEPT !.rows = @ - 1]>> \o Tail(@)]
    /\ UNCHANGED <<dbvars, now, last, req, rd, client>>

\* the trigger program at the head runs: its body's statements are next
RunTrigger ==
    /\ chain.todo # <<>>
    /\ LET item == Head(chain.todo)
           body == TriggerDefs[item.name].body
       IN /\ item.kind = "trigger"
          /\ item.depth < MaxDepth
          /\ \E n \in [1..Len(body) -> 0..MaxIndexRows] :
                /\ \A i \in 1..Len(body) : body[i].min <= n[i] /\ n[i] <= body[i].max
                /\ chain' = [chain EXCEPT
                      !.todo = [i \in 1..Len(body) |->
                                   StatementItem(body[i].event, body[i].table, n[i],
                                                 item.active \cup {item.name}, item.depth)]
                               \o Tail(@),
                      !.fired = @ + 1,
                      !.depth = IF item.depth > @ THEN item.depth ELSE @]
    /\ UNCHANGED <<dbvars, now, last, req, rd, client>>

\* nothing is left to do: the statement completes
Complete ==
    /\ chain.write # "none" /\ chain.todo = <<>>
    /\ chain' = NoChain
    /\ UNCHANGED <<dbvars, now, last, req, rd, client>>

ChainStep == RunStatement \/ RunTrigger \/ Complete

NextTriggers == StartWrite \/ ChainStep

\* the engine runs a statement it has begun to its end
SpecTriggers == Init /\ [][NextTriggers]_vars /\ WF_vars(ChainStep)

\* reviews are written while recipes are created
NextReviewEffects == CreateRecipe \/ InsertReview \/ DeleteReview

SpecReviewEffects == Init /\ [][NextReviewEffects]_vars

\* the writes that update a recipe row (an addReview and deletes of reviews
\* through their triggers, direct updates) and the writes that update a category row
\* through the association triggers.  The two families touch disjoint tables
\* and fire disjoint triggers; each is run from the seeded state of the
\* other.  Before the writes the clock advances and a stale index row may be
\* inserted; the writes then run at the time the clock has reached
BeforeDerivedWrites ==
    /\ last.op = "seed"
    /\ Tick \/ InsertIndexRow

RecipeRowWrites ==
    /\ last.op \notin {"insert_association", "delete_association"}
    /\ AddReviewStep(1) \/ DeleteReview \/ TouchRecipe

CategoryRowWrites ==
    /\ last.op \in {"seed", "insert_association", "delete_association"}
    /\ req[1].pc = "idle"
    /\ InsertAssociation \/ DeleteAssociation

NextDerived == BeforeDerivedWrites \/ RecipeRowWrites \/ CategoryRowWrites

SpecDerived == Init /\ [][NextDerived]_vars

----------------------------------------------------------------------------
(* The browser: RecipeAPI (main.js 664-808).  request is an async function:  *)
(* it runs up to its next await in one step, and the server and the network  *)
(* act between its steps.  The clock is Date.now(), in milliseconds.         *)

\* this.cacheTimeout = 5 * 60 * 1000
cacheTimeout == 300000
\* how far the clock moves in one step, and how far in all
ClockStep == 150000
MaxClock == 450000
\* how many reviews the server accepts
MaxPosts == 1

Advance(step, max) ==
    /\ clock + step <= max
    /\ clock' = clock + step
    /\ UNCHANGED <<worker, api, manager, debouncer>>

baseURL == "/api"
EndpointInputs == {"/recipes/a", "/recipes/a/reviews"}
\* options.method when the caller passes none
NoMethod == "undefined"
MethodInputs == {NoMethod, "GET", "POST"}

\* const url = `${this.baseURL}${endpoint}`
UrlOf(endpoint) == <<baseURL, endpoint>>
\* const cacheKey = `${options.method || 'GET'}_${url}`
CacheKey(method, url) == <<IF method = NoMethod THEN "GET" ELSE method, url>>
\* !options.method || options.method === 'GET'
IsGet(method) == method = NoMethod \/ method = "GET"

\* Date.now() - cached.timestamp <= this.cacheTimeout
CacheFreshInclusive(entry, t) == t - entry.timestamp <= cacheTimeout
\* Date.now() - cached.timestamp < this.cacheTimeout
CacheFresh(entry, t) == t - entry.timestamp < cacheTimeout

\* this.cache.set(cacheKey, entry)
CacheSet(c, key, entry) ==
    [k \in DOMAIN c \cup {key} |-> IF k = key THEN entry ELSE c[k]]

Settled == {"idle", "returned", "thrown", "resolved"}

\* request(endpoint, options) up to await fetch(...): a GET whose entry is
\* fresh returns the entry's data, every other request is sent
RequestBegin(c, caller, method, endpoint) ==
    LET url == UrlOf(endpoint)
        key == CacheKey(method, url)
        call == [NoCall EXCEPT !.caller = caller, !.method = method, !.url = url,
                               !.after = resolved]
    IN  IF IsGet(method) /\ key \in DOMAIN cache /\ CacheFresh(cache[key], clock)
        THEN [call EXCEPT !.pc = "returned", !.data = cache[key].data,
                          !.from_cache = TRUE]
        ELSE [call EXCEPT !.pc = "fetch"]

Request(c) ==
    /\ calls[c].pc \in Settled
    /\ \E method \in MethodInputs, endpoint \in EndpointInputs :
          calls' = [calls EXCEPT ![c] = RequestBegin(c, "request", method, endpoint)]
    /\ UNCHANGED <<worker, clock, cache, server, resolved, manager, debouncer>>

\* the server answers a request that fetch has sent: a GET with the data it
\* holds, a POST of a review by accepting it, or either with an error status
\* or with a body that is not JSON
Respond(c) ==
    /\ calls[c].pc = "fetch"
    /\ LET call == calls[c]
           post == call.method = "POST"
       IN  \E outcome \in {"ok", "not_json", "error"} :
              IF outcome = "error"
              THEN /\ calls' = [calls EXCEPT ![c].pc = "response"]
                   /\ UNCHANGED server
              ELSE /\ post => /\ call.url = UrlOf("/recipes/a/reviews")
                              /\ server < MaxPosts
                   /\ server' = IF post THEN server + 1 ELSE server
                   /\ calls' = [calls EXCEPT
                         ![c].pc = "response",
                         ![c].response =
                             [ok |-> TRUE, json |-> outcome = "ok",
                              body |-> [url |-> call.url,
                                        method |-> IF post THEN "POST" ELSE "GET",
                                        posted |-> server']]]
    /\ UNCHANGED <<worker, clock, cache, resolved, manager, debouncer>>

\* await fetch(...) resumes: if (!response.ok) throw
ResponseArrives(c) ==
    /\ calls[c].pc = "response"
    /\ calls' = [calls EXCEPT ![c].pc = IF calls[c].response.ok THEN "json"
                                        ELSE "thrown"]
    /\ UNCHANGED <<worker, clock, cache, server, resolved, manager, debouncer>>

\* await response.json() resumes: a successful GET is stored under its key
\* with the time it is stored at, and the data is returned
JsonParsed(c) ==
    /\ calls[c].pc = "json"
    /\ LET call == calls[c]
       IN  IF ~call.response.json
           THEN /\ calls' = [calls EXCEPT ![c].pc = "thrown"]
                /\ UNCHANGED cache
           ELSE /\ calls' = [calls EXCEPT ![c].pc = "returned",
                                          ![c].data = call.response.body]
                /\ cache' = IF IsGet(call.method)
                            THEN CacheSet(cache, CacheKey(call.method, call.url),
                                          [data |-> call.response.body,
                                           timestamp |-> clock])
                            ELSE cache
    /\ UNCHANGED <<worker, clock, server, resolved, manager, debouncer>>

\* submitReview up to await this.api.addRecipeReview(...): a POST to the
\* recipe's reviews
SubmitReview(c) ==
    /\ calls[c].pc \in Settled
    /\ calls' = [calls EXCEPT
          ![c] = RequestBegin(c, "submitReview", "POST", "/recipes/a/reviews")]
    /\ UNCHANGED <<worker, clock, cache, server, resolved, manager, debouncer>>

\* clearCache(): this.cache.clear()
ClearCache == << >>

\* submitReview resumes with the result: this.api.clearCache(); return result
SubmitReviewResume(c) ==
    /\ calls[c].pc = "returned" /\ calls[c].caller = "submitReview"
    /\ cache' = ClearCache
    /\ calls' = [calls EXCEPT ![c].pc = "resolved"]
    /\ resolved' = IF calls[c].data.posted > resolved THEN calls[c].data.posted
                   ELSE resolved
    /\ UNCHANGED <<worker, clock, server, manager, debouncer>>

ApiStep == \E c \in Calls : Respond(c) \/ ResponseArrives(c) \/ JsonParsed(c)

NextApi ==
    \/ Request(1)
    \/ SubmitReview(2)
    \/ SubmitReviewResume(2)
    \/ ApiStep
    \/ Advance(ClockStep, MaxClock)

SpecApi == Init /\ [][NextApi]_vars

----------------------------------------------------------------------------
(* The browser: RecipeDataManager's favorites and recently viewed recipes    *)
(* (main.js 851-1026).  A recipe is its id and its title; an entry of the    *)
(* recently viewed list is the recipe's id and viewedAt (the other fields    *)
(* copied from the recipe play no part in how the list is kept).             *)

\* this.recentlyViewed.slice(0, 20)
RecentLimit == 20

Min(a, b) == IF a <= b THEN a ELSE b

\* what an earlier session left under 'recently_viewed_recipes': nothing,
\* or a list one short of the limit, or a list at the limit
StoredRecent(n) == [i \in 1..n |-> [id |-> i, viewedAt |-> 0]]
StoredRecentInputs ==
    {StoredRecent(0), StoredRecent(RecentLimit - 1), StoredRecent(RecentLimit)}
\* the recipes viewed: the first and the last of a stored list, and two new
RecipeViewInputs == {1, RecentLimit, RecentLimit + 1, RecentLimit + 2}

\* what an earlier session left under 'recipe_favorites'
StoredFavoritesInputs ==
    {<< >>, <<[id |-> 1, title |-> "old"]>>,
     <<[id |-> 2, title |-> "old"], [id |-> 1, title |-> "old"]>>}
FavoriteInputs == [id : FavoriteIdInputs, title : {"old", "new"}]

\* this.recentlyViewed = this.loadRecentlyViewed()
LoadRecentlyViewed ==
    /\ done.op = "none"
    /\ \E stored \in StoredRecentInputs :
          /\ localStorage' = [localStorage EXCEPT !.recently_viewed_recipes = stored]
          /\ recentlyViewed' = stored
    /\ done' = [done EXCEPT !.op = "loadRecentlyViewed"]
    /\ UNCHANGED <<worker, clock, api, favorites, debouncer>>

\* filter out the recipe's entry, unshift a new one, slice(0, 20) left out
AddToRecentlyViewedListKeepsAll(list, recipe, t) ==
    <<[id |-> recipe.id, viewedAt |-> t]>>
        \o SelectSeq(list, LAMBDA item : item.id # recipe.id)

\* filter out the recipe's entry, unshift a new one, slice(0, 20)
AddToRecentlyViewedList(list, recipe, t) ==
    LET filtered == SelectSeq(list, LAMBDA item : item.id # recipe.id)
        unshifted == <<[id |-> recipe.id, viewedAt |-> t]>> \o filtered
    IN  SubSeq(unshifted, 1, Min(Len(unshifted), RecentLimit))

\* addToRecentlyViewed(recipe), with its saveRecentlyViewed()
AddToRecentlyViewed ==
    /\ done.op # "none"
    /\ \E id \in RecipeViewInputs :
          /\ recentlyViewed' =
                AddToRecentlyViewedList(recentlyViewed, [id |-> id], clock)
          /\ done' = [done EXCEPT !.op = "addToRecentlyViewed", !.id = id]
    /\ localStorage' = [localStorage EXCEPT
                           !.recently_viewed_recipes = recentlyViewed']
    /\ UNCHANGED <<worker, clock, api, favorites, debouncer>>

NextRecent ==
    \/ LoadRecentlyViewed
    \/ AddToRecentlyViewed
    \/ Advance(ClockStep, MaxClock)

SpecRecent == Init /\ [][NextRecent]_vars

\* this.favorites = this.loadFavorites()
LoadFavorites ==
    /\ done.op = "none"
    /\ \E stored \in StoredFavoritesInputs :
          /\ localStorage' = [localStorage EXCEPT !.recipe_favorites = stored]
          /\ favorites' = stored
    /\ done' = [done EXCEPT !.op = "loadFavorites"]
    /\ UNCHANGED <<worker, clock, api, recentlyViewed, debouncer>>

\* this.favorites.some(fav => fav.id === recipeId)
Some(list, recipeId) == \E i \in 1..Len(list) : list[i].id = recipeId

\* this.favorites.unshift(recipe), whether or not the id is there
AddToFavoritesListUnchecked(list, recipe) == <<recipe>> \o list

\* if (!this.favorites.some(...)) this.favorites.unshift(recipe)
AddToFavoritesList(list, recipe) ==
    IF ~Some(list, recipe.id) THEN <<recipe>> \o list ELSE list

\* addToFavorites(recipe); saveFavorites() runs only when the recipe is added
AddToFavorites ==
    /\ done.op # "none"
    /\ \E recipe \in FavoriteInputs :
          /\ favorites' = AddToFavoritesList(favorites, recipe)
          /\ done' = [done EXCEPT !.op = "addToFavorites", !.id = recipe.id,
                                  !.ops[recipe.id] = "add"]
          /\ localStorage' = IF ~Some(favorites, recipe.id)
                             THEN [localStorage EXCEPT !.recipe_favorites = favorites']
                             ELSE localStorage
    /\ UNCHANGED <<worker, clock, api, recentlyViewed, debouncer>>

\* removeFromFavorites(recipeId), with its saveFavorites()
RemoveFromFavorites ==
    /\ done.op # "none"
    /\ \E recipeId \in FavoriteIdInputs :
          /\ favorites' = SelectSeq(favorites, LAMBDA fav : fav.id # recipeId)
          /\ done' = [done EXCEPT !.op = "removeFromFavorites", !.id = recipeId,
                                  !.ops[recipeId] = "remove"]
    /\ localStorage' = [localStorage EXCEPT !.recipe_favorites = favorites']
    /\ UNCHANGED <<worker, clock, api, recentlyViewed, debouncer>>

\* isFavorite(recipeId)
IsFavorite ==
    /\ done.op # "none"
    /\ \E recipeId \in FavoriteIdInputs :
          done' = [done EXCEPT !.op = "isFavorite", !.id = recipeId,
                               !.result = Some(favorites, recipeId)]
    /\ UNCHANGED <<worker, clock, api, favorites, recentlyViewed, localStorage,
                   debouncer>>

NextFavorites ==
    \/ LoadFavorites
    \/ AddToFavorites
    \/ RemoveFromFavorites
    \/ IsFavorite

SpecFavorites == Init /\ [][NextFavorites]_vars

----------------------------------------------------------------------------
(* The browser: utils.debounce (main.js 26-37), as setupSearch uses it       *)
(* (main.js 455-460).  setTimeout(later, wait) runs later once, not before   *)
(* wait ms have passed and possibly after: a timer that has fallen due runs  *)
(* when the event loop gets to it.  clearTimeout cancels a timer that has    *)
(* not run.                                                                  *)

\* utils.debounce(() => { ... }, 300)
wait == 300
\* how far the clock moves in one step, and how far in all
DebounceStep == 100
MaxDebounceClock == 900
\* ...args of a call of the returned function
ArgsInputs == {"a", "b"}

\* timeout = setTimeout(later, wait) only when no timer is pending
RestartKeepsPending(timer, t, args) ==
    IF timer.set THEN timer
    ELSE [set |-> TRUE, due |-> t + wait, args |-> args]

\* clearTimeout(timeout); timeout = setTimeout(later, wait), later closing
\* over this call's args
Restart(timer, t, args) == [set |-> TRUE, due |-> t + wait, args |-> args]

\* the returned function is called
ExecutedFunction ==
    \E args \in ArgsInputs :
        /\ timeout' = Restart(timeout, clock, args)
        /\ burst' = [burst EXCEPT !.called = TRUE, !.at = clock, !.args = args,
                                  !.answered = FALSE]
        /\ UNCHANGED <<worker, clock, api, manager>>

\* the timer runs later: clearTimeout(timeout); func(...args)
Later ==
    /\ timeout.set /\ clock >= timeout.due
    /\ timeout' = NoTimer
    /\ burst' = [burst EXCEPT !.answered = TRUE, !.invoked = @ + 1,
                              !.invoked_at = clock, !.invoked_args = timeout.args]
    /\ UNCHANGED <<worker, clock, api, manager>>

NextDebounce ==
    \/ ExecutedFunction
    \/ Later
    \/ Advance(DebounceStep, MaxDebounceClock)

SpecDebounce == Init /\ [][NextDebounce]_vars

----------------------------------------------------------------------------
\* C1: in every state reached from the seeded database by inserts and deletes
\* of association rows, every category's recipe_count is the number of
\* recipe_categories rows whose category_id is that category
C1_RecipeCountIsAssociationCount ==
    \A c \in DOMAIN categories :
        categories[c].recipe_count =
            Cardinality({rc \in recipe_categories : rc[2] = c})

\* an association was deleted and one inserted: category 20 lost its only
\* recipe and category 2 gained its first
C1_Witness ==
    /\ last.op \in {"insert_association", "delete_association"} /\ last.ok
    /\ categories[20].recipe_count = 0
    /\ categories[2].recipe_count = 1

\* C2: in every state reached by inserts and deletes of reviews, every
\* recipe's review_count is the number of its review rows; with at least one
\* review its rating is their mean; with none its rating is 0, not NULL
C2_RatingIsMeanOfReviews ==
    \A r \in DOMAIN recipes :
        LET rs == {x \in reviews : x.recipe_id = r}
            sum == RatSum(rs)
            rating == recipes[r].rating
        IN /\ recipes[r].review_count = Cardinality(rs)
           /\ ~IsNull(rating)
           /\ rs # {} => rating[1] * sum[2] * Cardinality(rs) = sum[1] * rating[2]
           /\ rs = {} => rating = Whole(0)

\* the last review of recipe 1 was deleted, and recipe 2 got a third review
\* that moved its mean off 4.5
C2_Witness ==
    /\ last.op = "delete_review" /\ last.ok /\ last.id = 1
    /\ ~\E x \in reviews : x.recipe_id = 1
    /\ recipes[1].rating = Whole(0)
    /\ recipes[2].review_count = 3
    /\ recipes[2].rating = Frac(10, 3)
    /\ \E x \in reviews : x.recipe_id = 2 /\ x.rating = Whole(1)

\* C3: every recipe's rating is the mean of its reviews of status
\* 'published' (0 or NULL when there are none) and its review_count is the
\* number of those; pending and rejected reviews do not contribute
C3_OnlyPublishedReviewsCount ==
    \A r \in DOMAIN recipes :
        LET ps == {x \in reviews : x.recipe_id = r /\ x.status = "published"}
            sum == RatSum(ps)
            rating == recipes[r].rating
        IN /\ recipes[r].review_count = Cardinality(ps)
           /\ ps # {} => /\ ~IsNull(rating)
                         /\ rating[1] * sum[2] * Cardinality(ps) = sum[1] * rating[2]
           /\ ps = {} => rating \in {Whole(0), NULL}

\* C4: in every state reached by creating, updating and deleting recipes,
\* every recipe has exactly one search-index row, whose search_text is the
\* lowercased, space-joined title, description, tags, ingredients and
\* instructions the recipe has now
C4_OneCurrentIndexRowPerRecipe ==
    \A r \in DOMAIN recipes :
        IndexRowsOf(recipe_search_index, r) =
            SetToBag({[recipe_id |-> r, search_text |-> SearchText(recipes[r])]})

\* the lowercased, space-joined text of a row none of whose columns is NULL
C5_Expected(row) ==
    LOWER(row.title \o <<" ">> \o row.description \o <<" ">> \o row.tags \o <<" ">>
          \o row.ingredients \o <<" ">> \o row.instructions)

\* C5: after a committed update of a recipe, however many index rows it had
\* before, it has exactly one, built from the new column values: the new
\* title is in it, and the old title is not unless the new values contain it
C5_UpdateRebuildsIndexRow ==
    (last.op = "update_recipe" /\ last.ok /\ last.id \in DOMAIN recipes) =>
        LET r == last.id
            rows == IndexRowsOf(recipe_search_index, r)
            exp == C5_Expected(recipes[r])
        IN /\ BagCardinality(rows) = 1
           /\ \A x \in DOMAIN rows :
                /\ x.search_text = exp
                /\ Contains(x.search_text, LOWER(recipes[r].title))
                /\ ~Contains(exp, LOWER(last.pre.title))
                      => ~Contains(x.search_text, LOWER(last.pre.title))

\* a recipe that had two index rows got a new title, and the old title is
\* gone from its index row
C5_Witness ==
    /\ last.op = "update_recipe" /\ last.ok /\ last.id \in DOMAIN recipes
    /\ last.pre.n = 2
    /\ last.pre.title = <<"A", "b">>
    /\ recipes[last.id].title = <<"B", "Eacute">>
    /\ \A x \in DOMAIN IndexRowsOf(recipe_search_index, last.id) :
          ~Contains(x.search_text, <<"a", "b">>)

\* C6: a step that deletes a recipe leaves no association row, no review and
\* no search-index row referencing it; a step that deletes a category leaves
\* no association row referencing it and changes no recipe row
C6_DeleteCascades ==
    [][/\ \A r \in DOMAIN recipes \ DOMAIN recipes' :
            /\ ~\E rc \in recipe_categories' : rc[1] = r
            /\ ~\E x \in reviews' : x.recipe_id = r
            /\ IndexCount(recipe_search_index', r) = 0
       /\ \A c \in DOMAIN categories \ DOMAIN categories' :
            /\ ~\E rc \in recipe_categories' : rc[2] = c
            /\ recipes' = recipes]_vars

\* recipe 1, with its associations, reviews and index row, was deleted, and
\* then a category that still had an association of recipe 2
C6_Witness ==
    /\ last.op = "delete_category" /\ last.ok /\ last.pre # <<>>
    /\ last.id \notin DOMAIN categories
    /\ \E rc \in last.pre.associations : rc[1] = 2
    /\ 1 \notin DOMAIN recipes /\ 2 \in DOMAIN recipes
    /\ \E x \in reviews : x.recipe_id = 2

\* C7: after a recipe is deleted, every category it was associated with has
\* a recipe_count equal to the number of association rows still referencing
\* that category
C7_CascadeKeepsRecipeCount ==
    (last.op = "delete_recipe" /\ last.ok /\ last.pre # <<>>) =>
        \A rc \in last.pre.associations :
            rc[2] \in DOMAIN categories =>
                categories[rc[2]].recipe_count =
                    Cardinality({x \in recipe_categories : x[2] = rc[2]})

\* recipe 1 was deleted while in categories 5 and 20: 5 keeps recipe 2 only,
\* 20 keeps none
C7_Witness ==
    /\ last.op = "delete_recipe" /\ last.ok /\ last.id = 1 /\ last.pre # <<>>
    /\ last.pre.associations = {<<1, 5>>, <<1, 20>>}
    /\ categories[5].recipe_count = 1
    /\ categories[20].recipe_count = 0

\* what a reader holding a recipe row saw, against the reviews that existed
\* when it read the row
C8_RecipeViewConsistent(v) ==
    LET sum == RatSum(v.seen_reviews)
        n == Cardinality(v.seen_reviews)
    IN /\ v.review_count = n
       /\ n > 0 => /\ ~IsNull(v.rating)
                   /\ v.rating[1] * sum[2] * n = sum[1] * v.rating[2]
       /\ n = 0 => v.rating = Whole(0)

\* C8: no reader running between the writers' statements sees a review or
\* association row inserted or deleted with the recipe's rating and
\* review_count, or the category's recipe_count, not yet recomputed, nor one
\* of rating and review_count recomputed without the other
C8_ReadersSeeNoPartialWrite ==
    \A p \in Readers :
        /\ (rd[p].pc # "idle" /\ rd[p].kind = "recipe") => C8_RecipeViewConsistent(rd[p])
        /\ (rd[p].pc # "idle" /\ rd[p].kind = "category") =>
                rd[p].recipe_count = rd[p].seen_associations

\* a reader read recipe 1 after a review had been added to it and before one
\* was deleted: it holds review_count 3 while the database is back at 2
C8_Witness ==
    /\ rd[1].pc = "recipe_read" /\ rd[1].id = 1
    /\ rd[1].review_count = 3
    /\ recipes[1].review_count = 2
    /\ req[2].pc = "done" /\ req[2].status = 201
    /\ last.op = "delete_review"

\* C9: when two addReview requests for one recipe have both answered 201,
\* the recipe's review_count is the count before them plus 2 and its rating
\* is the mean of the earlier reviews and both new ones
C9_ConcurrentReviewsBothCounted ==
    (/\ req[1].pc = "done" /\ req[1].status = 201
     /\ req[2].pc = "done" /\ req[2].status = 201
     /\ req[1].recipe_id = req[2].recipe_id) =>
        LET r == req[1].recipe_id
            before == {x \in SeedReviews : x.recipe_id = r}
            n == Cardinality(before) + 2
            sum == RatAdd(RatSum(before), RatAdd(req[1].rating, req[2].rating))
        IN /\ recipes[r].review_count = n
           /\ recipes[r].rating = Frac(sum[1], sum[2] * n)

\* both requests reviewed recipe 1 with different ratings, the second having
\* started while the first was between its queries
C9_Witness ==
    /\ req[1].pc = "done" /\ req[1].status = 201 /\ req[1].recipe_id = 1
    /\ req[2].pc = "done" /\ req[2].status = 201 /\ req[2].recipe_id = 1
    /\ req[1].rating # req[2].rating
    /\ req[2].concurrent
    /\ recipes[1].review_count = 4

\* C10: every stored review has a rating that is an integer from 1 to 5
C10_StoredRatingsAreIntegers1To5 ==
    \A x \in reviews :
        /\ IsInteger(x.rating)
        /\ RatLeq(Whole(1), x.rating) /\ RatLeq(x.rating, Whole(5))

C13_FailedMaintenanceRollsBack ==
    [][/\ ~last'.ok => UNCHANGED dbvars
       /\ (last'.op \in {"update_recipe", "insert_review"} /\ last'.ok
           /\ last'.id \in DOMAIN recipes') =>
              SearchText(recipes'[last'.id]) # NOTEXT]_vars

\* recipe 3 was created with a NULL description; a review for it was refused
\* because the index rebuild fired by the rating update found a NULL text:
\* no review row was kept and the recipe has no review and no index row
C13_Witness ==
    /\ last.op = "insert_review" /\ last.err = "NOT NULL" /\ last.id = 3
    /\ 3 \in DOMAIN recipes /\ recipes[3].description = NOTEXT
    /\ recipes[3].review_count = 0
    /\ ~\E x \in reviews : x.recipe_id = 3
    /\ IndexCount(recipe_search_index, 3) = 0
    /\ recipes[1].title = <<"B", "Eacute">>

\* C14: a step that commits an update of a recipe or category row leaves
\* that row's updated_at equal to the clock at the update, whatever value the
\* UPDATE itself assigned to updated_at
C14_UpdatedAtIsTimeOfUpdate ==
    [][(now' = now /\ last'.ok) =>
          /\ (last'.op = "touch_recipe" /\ last'.id \in DOMAIN recipes') =>
                recipes'[last'.id].updated_at = now
          /\ (last'.op = "touch_category" /\ last'.id \in DOMAIN categories') =>
                categories'[last'.id].updated_at = now]_vars

\* at time 1 an UPDATE assigned recipe 1 an updated_at in the future, and
\* the row holds 1
C14_Witness ==
    /\ last.op = "touch_recipe" /\ last.ok /\ last.id = 1 /\ last.pre # <<>>
    /\ last.pre.supplied = MaxTime + 1
    /\ now = 1
    /\ recipes[1].updated_at = 1

\* C15: with a clock that never goes back, the updated_at of a recipe or
\* category row never decreases from one update of the row to the next
C15_UpdatedAtNeverDecreases ==
    [][/\ \A r \in DOMAIN recipes \cap DOMAIN recipes' :
            recipes[r].updated_at <= recipes'[r].updated_at
       /\ \A c \in DOMAIN categories \cap DOMAIN categories' :
            categories[c].updated_at <= categories'[c].updated_at]_vars

\* category 5, last updated at time 1, was updated again at time 2 by an
\* UPDATE that assigned it an updated_at of 0, and holds 2
C15_Witness ==
    /\ last.op = "touch_category" /\ last.ok /\ last.id = 5 /\ last.pre # <<>>
    /\ last.pre.supplied = 0 /\ last.pre.before = 1
    /\ now = 2
    /\ categories[5].updated_at = 2

\* C16: when the index of a recipe is materialized twice in a row by no-op
\* updates, the second run leaves exactly one index row, with the
\* search_text the first run produced
C16_RematerializeIsIdempotent ==
    (last.op = "rematerialize" /\ last.ok /\ last.pre.again) =>
        /\ IndexCount(recipe_search_index, last.id) = 1
        /\ IndexRowsOf(recipe_search_index, last.id) = last.pre.rows

\* recipe 3, created without an index row, was materialized twice in a row
\* and has the one row built from its content
C16_Witness ==
    /\ last.op = "rematerialize" /\ last.ok /\ last.pre.again /\ last.id = 3
    /\ IndexRowsOf(recipe_search_index, 3) =
          SetToBag({[recipe_id |-> 3,
                     search_text |->
                        <<"b", "Eacute", " ", "c", " ", "t", " ", "i", " ", "s">>]})

\* C17: whatever value a category's recipe_count held before, after a
\* committed insert or delete of an association row of that category it is
\* the number of association rows of the category
C17_RecountHealsDrift ==
    (last.op \in {"insert_association", "delete_association"} /\ last.ok) =>
        categories[last.id].recipe_count =
            Cardinality({rc \in recipe_categories : rc[2] = last.id})

\* category 2, with no recipe, had its recipe_count set to 7, and the insert
\* of its first association left it at 1; category 5 still holds a wrong 7
C17_Witness ==
    /\ last.op = "insert_association" /\ last.ok /\ last.id = 2
    /\ last.pre.count = 7
    /\ categories[2].recipe_count = 1
    /\ categories[5].recipe_count = 7

\* C18 as stated: a delete of a category that an association row or a
\* sub-category references is rejected and changes nothing
C18_ReferencedCategoryNotDeleted ==
    [][(/\ last'.op = "delete_category" /\ last'.id \in DOMAIN categories
        /\ \/ \E rc \in recipe_categories : rc[2] = last'.id
           \/ \E k \in DOMAIN categories \ {last'.id} :
                 categories[k].parent_id = last'.id) =>
            ~last'.ok /\ UNCHANGED dbvars]_vars

\* C18 amended: a delete of a category that a sub-category references is
\* rejected and changes nothing; a delete of a category that no sub-category
\* references commits, and removes the association rows that reference it
C18_CategoryWithChildrenNotDeleted ==
    [][(last'.op = "delete_category" /\ last'.id \in DOMAIN categories) =>
          IF \E k \in DOMAIN categories \ {last'.id} : categories[k].parent_id = last'.id
          THEN ~last'.ok /\ UNCHANGED dbvars
          ELSE /\ last'.ok
               /\ last'.id \notin DOMAIN categories'
               /\ ~\E rc \in recipe_categories' : rc[2] = last'.id]_vars

\* category 5 was deleted with its two association rows; the delete of
\* category 2, which has no recipe and is the parent of category 20, was
\* rejected
C18_Witness ==
    /\ last.op = "delete_category" /\ ~last.ok /\ last.err = "FOREIGN KEY"
    /\ last.id = 2 /\ last.pre.children = {20} /\ last.pre.associations = {}
    /\ 2 \in DOMAIN categories /\ categories[20].parent_id = 2
    /\ 5 \notin DOMAIN categories
    /\ recipe_categories = {<<1, 20>>, <<2, 1>>}

\* C19: a search with a non-blank q and no other filter returns only
\* published recipes whose search_text contains the lowercased q as a literal
\* substring, and all of them when limit and offset cut none off; also when
\* q contains % or _
C19_SearchIsLiteralSubstringMatch ==
    [][(/\ rd[1].pc = "idle" /\ rd'[1].pc = "done" /\ rd'[1].kind = "search"
        /\ ~TrimIsEmpty(rd'[1].q)) =>
          LET q == ToLowerCase(rd'[1].q)
              hits == {r \in DOMAIN recipes :
                          /\ recipes[r].status = "published"
                          /\ \E x \in DOMAIN IndexRowsOf(recipe_search_index, r) :
                                Contains(x.search_text, q)}
              data == rd'[1].data
          IN /\ rd'[1].status = 200
             /\ \A i \in 1..Len(data) : data[i] \in hits
             /\ (rd'[1].offset = 0 /\ rd'[1].limit >= Cardinality(hits)) =>
                    hits = {data[i] : i \in 1..Len(data)}]_vars

\* C20: a search returns no recipe that has no index row, and it returns
\* every published recipe that has its materialized index row when q is a
\* non-blank substring of the recipe's title (limit and offset cutting none
\* off)
C20_SearchReturnsIndexedRecipesOnly ==
    [][(/\ rd[1].pc = "idle" /\ rd'[1].pc = "done" /\ rd'[1].kind = "search"
        /\ ~TrimIsEmpty(rd'[1].q)) =>
          LET data == rd'[1].data
          IN /\ \A i \in 1..Len(data) : IndexCount(recipe_search_index, data[i]) > 0
             /\ \A r \in DOMAIN recipes :
                   (/\ recipes[r].status = "published"
                    /\ IndexRowsOf(recipe_search_index, r) =
                          SetToBag({[recipe_id |-> r, search_text |-> SearchText(recipes[r])]})
                    /\ Contains(recipes[r].title, rd'[1].q)
                    /\ rd'[1].offset = 0 /\ rd'[1].limit = DefaultLimit) =>
                        \E i \in 1..Len(data) : data[i] = r]_vars

\* C21: every write completes after a finite chain of trigger programs: no
\* trigger program is ever fired while it is itself running, the chain never
\* nests deeper than three trigger programs, and a write that has begun
\* always reaches its end
C21_TriggerChainsTerminate ==
    /\ [](\A i \in 1..Len(chain.todo) :
            /\ chain.todo[i].kind = "trigger" =>
                  chain.todo[i].name \notin chain.todo[i].active
            /\ chain.todo[i].depth <= 3)
    /\ (chain.write # "none") ~> (chain.write = "none")

\* an insert of a review has run its whole chain: the rating trigger, then
\* on its update of the recipe the index trigger and the timestamp trigger,
\* then on the timestamp trigger's own update the index trigger once more
C21_Witness ==
    /\ chain.write = "insert_review" /\ chain.todo = <<>>
    /\ chain.fired = 4 /\ chain.depth = 3

\* C22: whatever sort_by and sort_order a request supplies, the column and
\* the direction in the ORDER BY of the statement a listing handler executes
\* are on that handler's list of columns and one of ASC and DESC
C22_OrderByIsWhitelisted ==
    (rd[1].pc # "idle" /\ rd[1].kind = "list"
     /\ rd[1].endpoint \in {"recipes", "category_recipes", "reviews"}) =>
        /\ rd[1].order_by[1] \in ValidSortColumns(rd[1].endpoint)
        /\ rd[1].order_by[2] \in ValidSortOrders

\* C27: in a paginated response with a positive limit, hasMore is true
\* exactly when the statement matches a row at position offset + limit or
\* beyond
C27_HasMoreIffFurtherRow ==
    (rd[1].pc = "done" /\ rd[1].kind \in {"list", "search"} /\ rd[1].status = 200
     /\ rd[1].limit > 0) =>
        (rd[1].hasMore <=> rd[1].matched > rd[1].offset + rd[1].limit)

\* C23: request returns without calling fetch only when the request is a GET
\* and the cache holds, under the key of its URL, the body of a successful
\* GET of that URL stored less than cacheTimeout ago, and it returns that
\* body; an entry comes into the cache only when a GET whose response was ok
\* has its JSON, under that GET's URL and with the time of that moment
C23_CacheAnswersOnlyFreshGets ==
    [][\A c \in Calls :
          /\ (calls[c].pc \in Settled /\ calls'[c] # calls[c]
               /\ calls'[c].pc = "returned") =>
                LET key == <<"GET", calls'[c].url>>
                IN  /\ calls'[c].method \in {NoMethod, "GET"}
                    /\ key \in DOMAIN cache
                    /\ calls'[c].data = cache[key].data
                    /\ cache[key].data.url = calls'[c].url
                    /\ cache[key].data.method = "GET"
                    /\ cache[key].timestamp <= clock
                    /\ clock - cache[key].timestamp < 5 * 60 * 1000
          /\ \A key \in DOMAIN cache' :
                (IF key \in DOMAIN cache THEN cache'[key] # cache[key] ELSE TRUE) =>
                    \E d \in Calls :
                        /\ calls[d].pc = "json" /\ calls'[d].pc = "returned"
                        /\ calls[d].response.ok
                        /\ calls[d].method \in {NoMethod, "GET"}
                        /\ key = <<"GET", calls[d].url>>
                        /\ cache'[key] = [data |-> calls[d].response.body,
                                          timestamp |-> clock]]_vars

\* a GET was answered from an entry stored one clock step ago, while the
\* entry of the other URL has reached the age of cacheTimeout
C23_Witness ==
    /\ calls[1].pc = "returned" /\ calls[1].from_cache
    /\ calls[1].url = UrlOf("/recipes/a/reviews")
    /\ <<"GET", calls[1].url>> \in DOMAIN cache
    /\ clock - cache[<<"GET", calls[1].url>>].timestamp = ClockStep
    /\ <<"GET", UrlOf("/recipes/a")>> \in DOMAIN cache
    /\ clock - cache[<<"GET", UrlOf("/recipes/a")>>].timestamp >= cacheTimeout

\* C24: a GET made after a submitReview has resolved is never answered from
\* the cache with a body the server sent before it accepted that review
C24_NoAnswerFromBeforeTheReview ==
    \A c \in Calls :
        (calls[c].pc = "returned" /\ calls[c].from_cache) =>
            calls[c].data.posted >= calls[c].after

\* C25: a call of addToRecentlyViewed on a duplicate-free list of at most 20
\* entries leaves at most 20 entries, no two with the same id, the viewed
\* recipe first, the others behind it in the order they had, viewedAt never
\* increasing down the list; the length is unchanged when the recipe was
\* listed, and otherwise one more, up to 20
C25_RecentlyViewedBoundedAndOrdered ==
    [][(done'.op = "addToRecentlyViewed"
        /\ <<done, recentlyViewed>>' # <<done, recentlyViewed>>) =>
            LET old == recentlyViewed
                new == recentlyViewed'
                listed == \E i \in 1..Len(old) : old[i].id = done'.id
                others == SelectSeq(old, LAMBDA item : item.id # done'.id)
            IN  /\ Len(new) <= 20
                /\ \A i, j \in 1..Len(new) : i # j => new[i].id # new[j].id
                /\ new[1].id = done'.id
                /\ \A i \in 2..Len(new) : new[i] = others[i - 1]
                /\ \A i, j \in 1..Len(new) :
                      i < j => new[i].viewedAt >= new[j].viewedAt
                /\ listed => Len(new) = Len(old)
                /\ ~listed => Len(new) = IF Len(old) < 20 THEN Len(old) + 1
                                         ELSE 20]_vars

\* from a stored list of 20: the last entry was viewed again, then a recipe
\* not on the list, which pushed the then last entry out
C25_Witness ==
    /\ done.op = "addToRecentlyViewed" /\ done.id = 21
    /\ Len(recentlyViewed) = 20
    /\ recentlyViewed[1].id = 21 /\ recentlyViewed[2].id = 20
    /\ recentlyViewed[20].id = 18
    /\ recentlyViewed[1].viewedAt > recentlyViewed[2].viewedAt

\* C30: no two favorites share an id; addToFavorites of an id that is
\* present changes neither the list nor what is saved; an id for which
\* addToFavorites or removeFromFavorites has been called is in the list,
\* and isFavorite answers true for it, exactly when the last of these calls
\* was addToFavorites
C30_FavoritesFollowLastOperation ==
    [][/\ \A i, j \in 1..Len(favorites') :
             i # j => favorites'[i].id # favorites'[j].id
       /\ (done'.op = "addToFavorites"
            /\ \E i \in 1..Len(favorites) : favorites[i].id = done'.id) =>
                /\ favorites' = favorites
                /\ localStorage' = localStorage
       /\ \A id \in DOMAIN done'.ops :
             done'.ops[id] # "none" =>
                ((\E i \in 1..Len(favorites') : favorites'[i].id = id)
                    <=> done'.ops[id] = "add")
       /\ (done'.op = "isFavorite" /\ done'.ops[done'.id] # "none") =>
             (done'.result <=> done'.ops[done'.id] = "add")]_vars

\* from the stored favorites 2 and 1: 2 was added again, 1 was removed, and
\* isFavorite(1) has answered false
C30_Witness ==
    /\ done.op = "isFavorite" /\ done.id = 1 /\ ~done.result
    /\ done.ops[1] = "remove" /\ done.ops[2] = "add"
    /\ favorites = <<[id |-> 2, title |-> "old"]>>

\* C26 as claimed: func is never invoked less than wait ms after the most
\* recent call of the wrapper; it is invoked wait ms after the last call of
\* a burst, with that call's arguments, and once for every burst: when a
\* call comes wait ms or more after the one before it, func has been invoked
\* in between
C26_InvokedOnceWaitAfterBurst ==
    [][/\ burst'.invoked # burst.invoked =>
             /\ clock - burst.at >= wait
             /\ clock - burst.at = wait
             /\ burst'.invoked_args = burst.args
       /\ (burst.called /\ burst'.at - burst.at >= wait) => burst.answered]_vars

\* C26, amended: func is invoked only by the timer of the most recent call
\* of the wrapper, not less than wait ms after that call, with that call's
\* arguments, and at most once for it; a call of the wrapper cancels the
\* timer of the call before it and sets its own, due wait ms later
C26_InvokedByTimerOfLastCall ==
    [][/\ burst'.invoked # burst.invoked =>
             /\ burst'.invoked = burst.invoked + 1
             /\ burst.called /\ ~burst.answered /\ burst'.answered
             /\ clock - burst.at >= wait
             /\ burst'.invoked_args = burst.args
       /\ timeout'.set <=> (burst'.called /\ ~burst'.answered)
       /\ timeout'.set => /\ timeout'.due = burst'.at + wait
                          /\ timeout'.args = burst'.args]_vars

\* a burst of two calls, the second one clock step after the first: func was
\* invoked once, with the second call's arguments, by a timer that ran one
\* clock step late
C26_Witness ==
    /\ burst.invoked = 1 /\ burst.answered
    /\ burst.at = DebounceStep /\ burst.args = "b"
    /\ burst.invoked_args = "b"
    /\ burst.invoked_at = burst.at + wait + DebounceStep

C29_DerivedWritesStampAndReindex ==
    [][(last'.ok /\ <<last, dbvars>>' # <<last, dbvars>>) =>
          /\ (last'.op \in {"insert_review", "delete_review", "touch_recipe"}
               /\ last'.id \in DOMAIN recipes') =>
                /\ recipes'[last'.id].updated_at = now
                /\ IndexRowsOf(recipe_search_index', last'.id) =
                      SetToBag({[recipe_id |-> last'.id,
                                 search_text |-> C5_Expected(recipes'[last'.id])]})
          /\ (last'.op \in {"insert_association", "delete_association"}
               /\ last'.id \in DOMAIN categories') =>
                categories'[last'.id].updated_at = now]_vars

\* at time 2 addReview inserted a third review of recipe 1: the recipe row
\* was last updated at 2 and has one index row
C29_Witness ==
    /\ last.op = "insert_review" /\ last.ok /\ last.id = 1
    /\ req[1].pc = "done" /\ req[1].status = 201
    /\ now = 2 /\ recipes[1].updated_at = 2
    /\ recipes[1].review_count = 3
    /\ IndexCount(recipe_search_index, 1) = 1

====
